---- MODULE Spec2Model ----
(***************************************************************************)
(* Model of the VM test harness of azure-linux-image-tools:                *)
(*   test/vmtests/vmtests/utils/libvirt_vm.py             (LibvirtVm)      *)
(*   test/vmtests/vmtests/utils/libvirt_console_logger.py (console logger) *)
(* The hypervisor (libvirt), the lease table, the SSH server and the       *)
(* console stream are the environment: their answers are drawn with \E.    *)
(***************************************************************************)
EXTENDS Integers, Sequences, FiniteSets, TLC

(***************************************************************************)
(* Bounds of the model (not program constants).                            *)
(***************************************************************************)
\* number of LibvirtVm method calls made on the one handle
MaxCalls == 3
\* longest time, in seconds, one SshClient construction attempt takes
MaxConnectDur == 1
\* largest timeout argument a direct caller passes to get_vm_ip_address
MaxIpTimeout == 2
\* number of create_ssh_client calls made on the one handle
MaxConnects == 1
\* number of LibvirtConsoleLogger method calls made on the one logger
MaxLogCalls == 3
\* number of stream events over which the two lines are fed
MaxFeedEvents == 2
\* most files in the firmware descriptor directory
MaxDescriptors == 2
\* number of calls of the firmware resolver
MaxResolves == 2
\* largest index a prefix of the device name dictionary is taken to
MaxDiskIndex == 27
\* most resources a test registers in its close_list
MaxResources == 3

(***************************************************************************)
(* Values.                                                                 *)
(***************************************************************************)
None == "None"
Addrs == {"A", "B"}
\* hosts the model runs the harness on; ip_wait_time covers both branches
Machines == {"x86_64"}
vm_name == "vm"

\* what domain.interfaceAddresses(SRC_LEASE) can return: the interfaces in the
\* dict's iteration order, each with its "addrs" list
\* (an "addrs" list holds each leased address once)
AddrLists ==
    { l \in UNION { [1..n -> Addrs] : n \in 0..Cardinality(Addrs) } :
        \A i, j \in 1..Len(l) : i # j => l[i] # l[j] }
\* the guest's interfaces; a lease table lists some of them, in the order of
\* the dictionary the query returns, each with its "addrs" list
Ifaces == {"eth0", "eth1"}
LeaseTables == UNION { [1..n -> AddrLists] : n \in 0..Cardinality(Ifaces) }
\* the answers drawn where the table itself is not recorded: no interface, one
\* address, and the two addresses an arm64 guest holds for a while
PlainLeaseTables == { << >>, << <<"A">> >>, << <<"A", "B">> >> }

(***************************************************************************)
(* State.                                                                  *)
(***************************************************************************)
VARIABLES
    \* ---- hypervisor side of self.domain ----
    dom,        \* [active: "off"|"paused"|"running", defined: BOOLEAN]
    hvLog,      \* hypervisor primitives issued through self.domain, in order
    calls,      \* LibvirtVm methods called so far, with their outcome
    \* ---- the caller thread inside get_vm_ip_address / create_ssh_client ----
    pc,         \* position of the caller thread
    now,        \* seconds elapsed since the running method was entered
    timeout_time,   \* get_vm_ip_address: start_time + timeout
    addr,       \* get_vm_ip_address: result of the last poll
    inSsh,      \* TRUE when get_vm_ip_address was called by create_ssh_client
    vm_ip_address,  \* create_ssh_client: address of the current attempt
    fetched,    \* addresses get_vm_ip_address returned to create_ssh_client
    attempts,   \* SshClient constructions made: <<address, succeeded>>
    emptyPolls, \* TRUE once a poll of the running method saw no address
    result,     \* outcome of the last get_vm_ip_address / create_ssh_client
    machine,    \* platform.machine() of the host
    lease,      \* lease table a direct address query last read
    \* ---- LibvirtConsoleLogger: its fields ----
    stream_completed,   \* self._stream_completed (Event): set or not
    console_stream,     \* self._console_stream is set (not None)
    callback_started,   \* self._console_stream_callback_started
    callback_added,     \* self._console_stream_callback_added
    log_file,           \* self._log_file: "None", "open" or "closed"
    logging_buffer,     \* self._logging_buffer
    \* ---- the hypervisor's console stream and the event thread ----
    hvStream,   \* "none", "open", "aborted" or "finished"
    hvCallback, \* an event callback is registered on the stream
    console,    \* bytes the guest wrote that were not read yet
    evQueue,    \* callbacks handed to run_callback, not run yet
    epc,        \* position of the event thread: "idle", "recv" or "tail"
    events,     \* event mask of the _stream_event in progress
    \* ---- the caller thread of the logger ----
    lpc,        \* "idle", "close_wait" or "wait_for_close"
    lcalls,     \* logger methods called so far, with argument and outcome
    \* ---- what the logger did ----
    streamOps,  \* stream mutations: operation, thread, success
    logLines,   \* records emitted by logging.debug in _write_logging
    fileData,   \* bytes written to the log file
    closedBy,   \* what ran the close routine first: "none", "queued", "event"
    escaped,    \* an exception left an event-thread callback
    closeRuns,  \* times the close routine ran past its completed-flag guard
    closeFail,  \* step of the close routine that raised, "none" when none did
    warning,    \* what the last step of the logger passed to logging.warning
    \* ---- the console fed "line1\nline2" ----
    nFeed,      \* stream events delivered while the two lines are fed
    \* ---- _get_libvirt_firmware_config ----
    firmware_dir,   \* /usr/share/qemu/firmware: the files in glob order
    fwCalls,    \* calls of the resolver made so far: request and outcome
    \* ---- create_libvirt_domain_xml ----
    xmlCall,    \* the last call: << >>, or <<[vm_spec, log_file, domain]>>
    \* ---- _gen_disk_device_name on one next_disk_indexes dictionary ----
    next_disk_indexes,  \* the dictionary: prefix -> next index
    issued,     \* calls made so far for each prefix
    nameCall,   \* the last call: << >>, or <<[prefix, n, outcome]>>
    \* ---- the close_list fixture around one test ----
    fixture,    \* the conftest.py the fixture comes from, "none" before setup
    keep_environment,   \* the --keep-environment flag
    vm_delete_list,     \* the list the fixture yields: resources registered
    tpc,        \* "idle", "test", "closing" or "done"
    closeLog,   \* close() calls the teardown made: <<resource, succeeded>>
    exceptions, \* the teardown's list of caught exceptions, by resource
    teardown    \* how the teardown ended, as pytest sees it

vmVars   == <<dom, hvLog, calls>>
connVars == <<pc, now, timeout_time, addr, inSsh, vm_ip_address, fetched,
              attempts, emptyPolls, result, machine, lease>>
logVars  == <<stream_completed, console_stream, callback_started,
              callback_added, log_file, logging_buffer, hvStream, hvCallback,
              console, evQueue, epc, events, lpc, lcalls, streamOps,
              logLines, fileData, closedBy, escaped, closeRuns,
              closeFail, warning>>
feedVars == <<nFeed>>
fwVars   == <<firmware_dir, fwCalls>>
xmlVars  == <<xmlCall>>
nameVars == <<next_disk_indexes, issued, nameCall>>
tearVars == <<fixture, keep_environment, vm_delete_list, tpc, closeLog,
              exceptions, teardown>>
\* the state of libvirt_utils.py and of the fixtures
libVars  == <<fwVars, xmlVars, nameVars, tearVars>>
\* the state outside the VM handle and the console logger
utilVars == <<feedVars, libVars>>
vars     == <<dom, hvLog, calls, pc, now, timeout_time, addr, inSsh,
              vm_ip_address, fetched, attempts, emptyPolls, result, machine,
              lease, stream_completed, console_stream, callback_started,
              callback_added, log_file, logging_buffer, hvStream, hvCallback,
              console, evQueue, epc, events, lpc, lcalls, streamOps,
              logLines, fileData, closedBy, escaped, closeRuns, closeFail,
              warning, nFeed,
              firmware_dir, fwCalls, xmlCall, next_disk_indexes, issued,
              nameCall, fixture, keep_environment, vm_delete_list, tpc,
              closeLog, exceptions, teardown>>

NoResult == [kind |-> "none", addr |-> None, err |-> None]

\* bytes of the console: letters, digits, line feed, space and the two bytes
\* that open an ANSI control sequence
LF == "LF"
SP == "SP"
ESC == "ESC"
\* three lines of guest output, the last one unfinished
ThreeLines == <<"l", LF, "i", LF, "e">>
\* two lines of guest output, the last one unfinished
TwoLines == <<"l", LF, "i">>
\* what the guest writes to its console during one run
ConsoleInputs ==
    { ThreeLines,
      <<ESC, "[", "1", "m", "n", SP>> }

\* the two lines of the feeding example, "line1\nline2"
Line12 == <<"l", "i", "n", "e", "1", LF, "l", "i", "n", "e", "2">>

\* LibvirtConsoleLogger.__init__
InitLog ==
    /\ stream_completed = FALSE
    /\ console_stream = FALSE
    /\ callback_started = FALSE
    /\ callback_added = FALSE
    /\ log_file = "None"
    /\ logging_buffer = << >>
    /\ hvStream = "none"
    /\ hvCallback = FALSE
    /\ console = << >>
    /\ evQueue = << >>
    /\ epc = "idle"
    /\ events = {}
    /\ lpc = "idle"
    /\ lcalls = << >>
    /\ streamOps = << >>
    /\ logLines = << >>
    /\ fileData = << >>
    /\ closedBy = "none"
    /\ escaped = FALSE
    /\ closeRuns = 0
    /\ closeFail = "none"
    /\ warning = "none"

\* LibvirtVm.__init__: the domain is defined (not started), nothing is running.
InitVm ==
    /\ dom = [active |-> "off", defined |-> TRUE]
    /\ hvLog = << >>
    /\ calls = << >>
    /\ pc = "idle"
    /\ now = 0
    /\ timeout_time = 0
    /\ addr = None
    /\ inSsh = FALSE
    /\ vm_ip_address = None
    /\ fetched = << >>
    /\ attempts = << >>
    /\ emptyPolls = FALSE
    /\ result = NoResult
    /\ machine \in Machines
    /\ lease = << >>

InitFeed == nFeed = 0

\* no firmware descriptor is installed and the resolver was not called
InitFw ==
    /\ firmware_dir = << >>
    /\ fwCalls = << >>

\* the device prefixes: "vd" and "sd" are lettered, any other is numbered
Prefixes == {"vd", "sd", "hd"}

\* no domain was built; the dictionary is empty ("{}")
InitXml == xmlCall = << >>
InitNames ==
    /\ next_disk_indexes = << >>
    /\ issued = [p \in Prefixes |-> 0]
    /\ nameCall = << >>

\* the two conftest.py files that define close_list
Fixtures == {"vmtests", "osmodifiertest"}
Pending == [kind |-> "pending", group |-> << >>]

\* no test has asked for the fixture yet
InitTear ==
    /\ fixture = "none"
    /\ keep_environment = FALSE
    /\ vm_delete_list = << >>
    /\ tpc = "idle"
    /\ closeLog = << >>
    /\ exceptions = << >>
    /\ teardown = Pending

InitLib == InitFw /\ InitXml /\ InitNames /\ InitTear

\* one handle and one logger, both just constructed
Init == InitVm /\ InitLog /\ InitFeed /\ InitLib

(***************************************************************************)
(* The hypervisor.  A primitive can succeed only in the domain states      *)
(* libvirt accepts it in, and may fail (libvirtError) in any state.        *)
(***************************************************************************)
HvCanSucceed(op, d) ==
    CASE op = "create"   -> d.active = "off" /\ d.defined
      [] op = "resume"   -> d.active = "paused"
      [] op = "destroy"  -> d.active # "off"
      [] op = "undefine" -> d.defined

HvApply(op, ok, d) ==
    IF ~ok THEN d
    ELSE CASE op = "create"   -> [d EXCEPT !.active = "paused"]
           [] op = "resume"   -> [d EXCEPT !.active = "running"]
           [] op = "destroy"  -> [d EXCEPT !.active = "off"]
           [] op = "undefine" -> [d EXCEPT !.defined = FALSE]

HvEntry(op, ok) == [op |-> op, ok |-> ok, call |-> Len(calls) + 1]

CanCall == pc = "idle" /\ Len(calls) < MaxCalls

(***************************************************************************)
(* LibvirtVm.start and LibvirtVm.close.  cOk, rOk, dOk, uOk are the        *)
(* hypervisor's answers to create-paused, resume, destroy and undefine.    *)
(***************************************************************************)
\* variant: resume is issued although create-paused failed
StartOps_ResumeAnyway(cOk, rOk) ==
    << HvEntry("create", cOk), HvEntry("resume", rOk) >>

\* primitives start() issues, in order, with their answers
StartOps(cOk, rOk) ==
    IF cOk THEN << HvEntry("create", TRUE), HvEntry("resume", rOk) >>
           ELSE << HvEntry("create", FALSE) >>

\* start() has no try/except: a libvirtError of either primitive propagates
StartRaises(cOk, rOk) == ~cOk \/ ~rOk

\* variant: one try block around both primitives, a failed destroy skips undefine
CloseOps_OneTry(dOk, uOk) ==
    IF dOk THEN << HvEntry("destroy", TRUE), HvEntry("undefine", uOk) >>
           ELSE << HvEntry("destroy", FALSE) >>

\* primitives close() issues, in order, with their answers
CloseOps(dOk, uOk) == << HvEntry("destroy", dOk), HvEntry("undefine", uOk) >>

\* variant: the libvirtError of a failed primitive is not caught
CloseRaises_Propagates(dOk, uOk) == ~dOk \/ ~uOk

\* both primitives of close() sit in their own try/except libvirtError
CloseRaises(dOk, uOk) == FALSE

RECURSIVE HvFeasible(_, _)
HvFeasible(ops, d) ==
    IF ops = << >> THEN TRUE
    ELSE /\ Head(ops).ok => HvCanSucceed(Head(ops).op, d)
         /\ HvFeasible(Tail(ops), HvApply(Head(ops).op, Head(ops).ok, d))

RECURSIVE HvRun(_, _)
HvRun(ops, d) ==
    IF ops = << >> THEN d
    ELSE HvRun(Tail(ops), HvApply(Head(ops).op, Head(ops).ok, d))

CallEntry(m, raised) ==
    [m |-> m, res |-> IF raised THEN "raised" ELSE "returned"]

Start ==
    /\ CanCall
    /\ \E cOk \in BOOLEAN, rOk \in BOOLEAN :
         /\ (~cOk => rOk)         \* resume has no answer when it is not issued
         /\ HvFeasible(StartOps(cOk, rOk), dom)
         /\ dom' = HvRun(StartOps(cOk, rOk), dom)
         /\ hvLog' = hvLog \o StartOps(cOk, rOk)
         /\ calls' = Append(calls, CallEntry("start", StartRaises(cOk, rOk)))
    /\ UNCHANGED <<connVars, logVars, utilVars>>

Close ==
    /\ CanCall
    /\ \E dOk \in BOOLEAN, uOk \in BOOLEAN :
         /\ HvFeasible(CloseOps(dOk, uOk), dom)
         /\ dom' = HvRun(CloseOps(dOk, uOk), dom)
         /\ hvLog' = hvLog \o CloseOps(dOk, uOk)
         /\ calls' = Append(calls, CallEntry("close", CloseRaises(dOk, uOk)))
    /\ UNCHANGED <<connVars, logVars, utilVars>>

\* The guest powers itself off (on_poweroff = destroy): environment step.
GuestStops ==
    /\ dom.active # "off"
    /\ dom' = [dom EXCEPT !.active = "off"]
    /\ UNCHANGED <<hvLog, calls>>
    /\ UNCHANGED <<connVars, logVars, utilVars>>

(***************************************************************************)
(* LibvirtVm.try_get_vm_ip_address and LibvirtVm.get_vm_ip_address.        *)
(***************************************************************************)
\* variant: the first address of the list is returned
try_get_vm_ip_address_First(interfaces) ==
    IF Len(interfaces) < 1 THEN None
    ELSE LET addrs == interfaces[1]
         IN  IF Len(addrs) < 1 THEN None
             ELSE addrs[1]

\* variant: the first interface that holds an address is consulted
try_get_vm_ip_address_AnyInterface(interfaces) ==
    LET held == { k \in 1..Len(interfaces) : Len(interfaces[k]) >= 1 }
    IN  IF held = {} THEN None
        ELSE LET k == CHOOSE k \in held : \A j \in held : k <= j
             IN  interfaces[k][Len(interfaces[k])]

\* the address query on one answer of the lease table
try_get_vm_ip_address(interfaces) ==
    IF Len(interfaces) < 1 THEN None
    ELSE LET addrs == interfaces[1]      \* next(iter(interfaces))
         IN  IF Len(addrs) < 1 THEN None
             ELSE addrs[Len(addrs)]

\* variant: the first empty poll already raises
IpTimedOut_AtOnce(t, limit) == TRUE

\* "if time.time() > timeout_time"
IpTimedOut(t, limit) == t > limit

\* variant: the loop polls again without sleeping
ip_poll_interval_NoSleep == 1 - 1

\* seconds get_vm_ip_address sleeps between two polls
ip_poll_interval == 1

NoIpError == [kind |-> "error", addr |-> None,
              err |-> <<"No IP addresses found for", vm_name>>]

\* a direct call get_vm_ip_address(timeout=t) by a test
GetVmIpAddress(t) ==
    /\ CanCall
    /\ pc' = "ip_poll"
    /\ now' = 0
    /\ timeout_time' = 0 + t
    /\ inSsh' = FALSE
    /\ vm_ip_address' = None
    /\ fetched' = << >>
    /\ attempts' = << >>
    /\ emptyPolls' = FALSE
    /\ result' = NoResult
    /\ UNCHANGED <<addr, machine, lease, dom, hvLog, calls, logVars, utilVars>>

\* variant: create_ssh_client handles the address timeout like a failed session
NoIpCaught_Retried(in_ssh) == in_ssh

\* the only except clause of create_ssh_client names SshClientException and
\* covers the SshClient construction alone: the address timeout is not caught
NoIpCaught(in_ssh) == FALSE

\* one iteration of the while loop up to the sleep: poll, return, or raise;
\* interfaces is what the lease table answers to this poll
IpPoll(interfaces) ==
    /\ pc = "ip_poll"
    /\   LET a == try_get_vm_ip_address(interfaces) IN
         /\ addr' = a
         /\ IF a # None
            THEN \* "if addr: return addr"
                 IF inSsh
                 THEN /\ pc' = "ssh_connect"
                      /\ vm_ip_address' = a
                      /\ fetched' = Append(fetched, a)
                      /\ UNCHANGED <<result, calls, emptyPolls>>
                 ELSE /\ pc' = "idle"
                      /\ result' = [kind |-> "addr", addr |-> a, err |-> None]
                      /\ calls' = Append(calls,
                                         CallEntry("get_vm_ip_address", FALSE))
                      /\ UNCHANGED <<vm_ip_address, fetched, emptyPolls>>
            ELSE /\ emptyPolls' = TRUE
                 /\ UNCHANGED <<vm_ip_address, fetched>>
                 /\ IF IpTimedOut(now, timeout_time) /\ NoIpCaught(inSsh)
                    THEN /\ pc' = "ssh_sleep"
                         /\ UNCHANGED <<result, calls>>
                    ELSE IF IpTimedOut(now, timeout_time)
                    THEN \* raise; create_ssh_client does not catch it
                         /\ pc' = "idle"
                         /\ result' = NoIpError
                         /\ calls' = Append(calls,
                               CallEntry(IF inSsh THEN "create_ssh_client"
                                         ELSE "get_vm_ip_address", TRUE))
                    ELSE /\ pc' = "ip_sleep"
                         /\ UNCHANGED <<result, calls>>
    /\ UNCHANGED <<now, timeout_time, inSsh, attempts, machine, dom, hvLog,
                   logVars, utilVars>>

\* a poll whose lease table answer is kept in lease
IpPollRecorded ==
    \E interfaces \in LeaseTables :
        IpPoll(interfaces) /\ lease' = interfaces

\* a poll whose lease table answer is not kept
IpPollPlain ==
    \E interfaces \in PlainLeaseTables :
        IpPoll(interfaces) /\ UNCHANGED lease

\* time.sleep(1)
IpSleep ==
    /\ pc = "ip_sleep"
    /\ now' = now + ip_poll_interval
    /\ pc' = "ip_poll"
    /\ UNCHANGED <<timeout_time, addr, inSsh, vm_ip_address, fetched, attempts,
                   emptyPolls, result, machine, lease, dom, hvLog, calls,
                   logVars, utilVars>>

(***************************************************************************)
(* LibvirtVm.create_ssh_client.                                            *)
(***************************************************************************)
ip_wait_time(m) == IF m = "aarch64" THEN 300 ELSE 30
stable_ip_time_out == 360

\* variant: a longer backoff than the code's
stable_ip_wait_time_Long == stable_ip_time_out - 160

stable_ip_wait_time == 120

\* variant: gives up already when the elapsed time equals the limit
GiveUp_AtLimit(delta_time) == delta_time >= stable_ip_time_out

\* "if delta_time > stable_ip_time_out"
GiveUp(delta_time) == delta_time > stable_ip_time_out

GiveUpError(a) == [kind |-> "error", addr |-> a,
                   err |-> <<"Error connecting to", a, "SshClientException">>]

Connects == Len(SelectSeq(calls, LAMBDA c : c.m = "create_ssh_client"))

\* entry of create_ssh_client up to the first get_vm_ip_address;
\* stable_ip_start_time is time 0
CreateSshClient ==
    /\ CanCall
    /\ Connects < MaxConnects
    /\ pc' = "ip_poll"
    /\ now' = 0
    /\ timeout_time' = 0 + ip_wait_time(machine)
    /\ inSsh' = TRUE
    /\ vm_ip_address' = None
    /\ fetched' = << >>
    /\ attempts' = << >>
    /\ emptyPolls' = FALSE
    /\ result' = NoResult
    /\ UNCHANGED <<addr, machine, lease, dom, hvLog, calls, logVars, utilVars>>

\* SshClient(vm_ip_address, ...) and the except branch; the construction takes
\* d seconds and succeeds or raises SshClientException
SshConnect ==
    /\ pc = "ssh_connect"
    /\ \E ok \in BOOLEAN, d \in {0, MaxConnectDur} :
         /\ now' = now + d
         /\ attempts' = Append(attempts, <<vm_ip_address, ok>>)
         /\ IF ok
            THEN /\ pc' = "idle"
                 /\ result' = [kind |-> "session", addr |-> vm_ip_address,
                               err |-> None]
                 /\ calls' = Append(calls,
                                    CallEntry("create_ssh_client", FALSE))
            ELSE IF GiveUp(now' - 0)
                 THEN /\ pc' = "idle"
                      /\ result' = GiveUpError(vm_ip_address)
                      /\ calls' = Append(calls,
                                         CallEntry("create_ssh_client", TRUE))
                 ELSE /\ pc' = "ssh_sleep"
                      /\ UNCHANGED <<result, calls>>
    /\ UNCHANGED <<timeout_time, addr, inSsh, vm_ip_address, fetched,
                   emptyPolls, machine, lease, dom, hvLog, logVars, utilVars>>

\* time.sleep(stable_ip_wait_time), then the next iteration enters
\* get_vm_ip_address(timeout=ip_wait_time)
SshSleep ==
    /\ pc = "ssh_sleep"
    /\ now' = now + stable_ip_wait_time
    /\ timeout_time' = now' + ip_wait_time(machine)
    /\ pc' = "ip_poll"
    /\ UNCHANGED <<addr, inSsh, vm_ip_address, fetched, attempts, emptyPolls,
                   result, machine, lease, dom, hvLog, calls, logVars, utilVars>>

(***************************************************************************)
(* LibvirtConsoleLogger._write_logging: the buffered bytes become one      *)
(* debug record, right-stripped and with ANSI escape sequences removed.    *)
(***************************************************************************)
\* variant: rstrip takes digits for whitespace
Whitespace_Digits == {LF, SP, "1", "2"}

\* bytes str.rstrip() removes
Whitespace == {LF, SP}
\* ANSI_ESCAPE: ESC, then one byte of [@-Z\\-_], or "[" [0-?]* [ -/]* [@-~]
AnsiSingle == {}                    \* no byte of the alphabet is in [@-Z\\-_]
AnsiParam == {"1", "2"}             \* [0-?]
AnsiInter == {SP}                   \* [ -/]
AnsiFinal == {"l", "i", "n", "e", "m", "["}     \* [@-~]

RECURSIVE RStrip(_)
RStrip(b) ==
    IF b # << >> /\ b[Len(b)] \in Whitespace
    THEN RStrip(SubSeq(b, 1, Len(b) - 1))
    ELSE b

RECURSIVE SkipWhile(_, _, _)
\* first index >= i of b whose byte is not in class (Len(b) + 1 when none)
SkipWhile(b, i, class) ==
    IF i <= Len(b) /\ b[i] \in class THEN SkipWhile(b, i + 1, class) ELSE i

\* index of the last byte of the escape sequence that starts at b[i], 0 if none
AnsiEnd(b, i) ==
    IF b[i] # ESC \/ i + 1 > Len(b) THEN 0
    ELSE IF b[i + 1] \in AnsiSingle THEN i + 1
    ELSE IF b[i + 1] # "[" THEN 0
    ELSE LET f == SkipWhile(b, SkipWhile(b, i + 2, AnsiParam), AnsiInter)
         IN  IF f <= Len(b) /\ b[f] \in AnsiFinal THEN f ELSE 0

RECURSIVE AnsiSub(_, _)
\* ANSI_ESCAPE.sub("", b), scanning from index i
AnsiSub(b, i) ==
    IF i > Len(b) THEN << >>
    ELSE IF AnsiEnd(b, i) # 0 THEN AnsiSub(b, AnsiEnd(b, i) + 1)
    ELSE <<b[i]>> \o AnsiSub(b, i + 1)

\* the record _write_logging emits for the buffer b
LogRecord(b) == AnsiSub(RStrip(b), 1)

\* data.find(b"\n"): index of the first line feed, 0 when there is none
RECURSIVE FindNewline(_, _)
FindNewline(data, i) ==
    IF i > Len(data) THEN 0
    ELSE IF data[i] = LF THEN i
    ELSE FindNewline(data, i + 1)

(***************************************************************************)
(* The shared event thread (libvirt_events_thread): run_callback hands a   *)
(* callback to it and returns; the thread runs the callbacks in order.     *)
(***************************************************************************)
run_callback(q, cb) == Append(q, cb)

StreamOp(op, thread, ok) == [op |-> op, thread |-> thread, ok |-> ok]

(***************************************************************************)
(* LibvirtConsoleLogger._close_stream(abort), run on the event thread.     *)
(* failAt names the step that raises: "none", "file" (log file close),     *)
(* "remove" (eventRemoveCallback) or "term" (abort / finish).              *)
(***************************************************************************)
FailPoints == {"none", "file", "remove", "term"}

\* variant: close() runs the close routine itself instead of handing it over
ThreadOf_Direct(by) == IF by = "queued" THEN "caller" ELSE "event"

\* the thread the close routine runs on: the stream event handler is called by
\* the event thread, and close() hands the routine to it with run_callback
ThreadOf(by) == "event"

\* the stream mutations one effective run of the close routine makes
CloseStreamOps(abort, by, failAt) ==
    IF failAt = "file" THEN << >>
    ELSE (IF callback_added
          THEN << StreamOp("remove", ThreadOf(by), failAt # "remove") >>
          ELSE << >>)
         \o
         (IF failAt = "remove" THEN << >>
          ELSE << StreamOp(IF abort THEN "abort" ELSE "finish", ThreadOf(by),
                           failAt # "term") >>)

\* variant: the close routine does not look at the completed flag
AlreadyClosed_Never == FALSE

\* "if self._stream_completed.is_set(): return"
AlreadyClosed == stream_completed

\* variant: the completion signal is given only when no step raised
Signalled_OnSuccess(failAt) == failAt = "none"

\* "finally: self._stream_completed.set()": given whatever the try block did
Signalled(failAt) == TRUE

closeVarsOf == <<stream_completed, logging_buffer, logLines, log_file,
                 hvCallback, hvStream, streamOps, closedBy, escaped, console,
                 closeRuns, closeFail>>

_close_stream(abort, by, failAt) ==
    IF AlreadyClosed
    THEN /\ failAt = "none"
         /\ UNCHANGED closeVarsOf
    ELSE /\ failAt = "remove" => callback_added
         \* try: write the final log line, close the file, close the stream
         /\ logLines' = Append(logLines, LogRecord(logging_buffer))
         /\ logging_buffer' = << >>
         /\ log_file' = "closed"
         /\ streamOps' = streamOps \o CloseStreamOps(abort, by, failAt)
         /\ hvCallback' = IF callback_added /\ failAt \in {"none", "term"}
                          THEN FALSE ELSE hvCallback
         /\ hvStream' = IF failAt # "none" THEN hvStream
                        ELSE IF abort THEN "aborted" ELSE "finished"
         \* a stream that is torn down delivers nothing more
         /\ console' = IF failAt # "none" THEN console ELSE << >>
         \* finally: signal that the stream has closed
         /\ stream_completed' = Signalled(failAt)
         /\ closeRuns' = closeRuns + 1
         /\ closeFail' = failAt
         /\ closedBy' = by
         /\ escaped' = (escaped \/ failAt # "none")

(***************************************************************************)
(* The event thread: queued callbacks and the stream event handler.        *)
(***************************************************************************)
\* the event thread runs the next callback handed to run_callback
RunQueued ==
    /\ epc = "idle"
    /\ evQueue # << >>
    /\ evQueue' = Tail(evQueue)
    /\ IF Head(evQueue) = "register"
       THEN \* _register_console_callbacks
            \E ok \in BOOLEAN :
              /\ ok => hvStream = "open"
              /\ streamOps' = Append(streamOps, StreamOp("register", "event", ok))
              /\ hvCallback' = (hvCallback \/ ok)
              /\ callback_added' = (callback_added \/ ok)
              /\ escaped' = (escaped \/ ~ok)
              /\ UNCHANGED <<stream_completed, logging_buffer, logLines,
                             log_file, hvStream, closedBy, closeRuns, closeFail,
                             console>>
       ELSE \* _close_stream(True) handed over by close()
            /\ \E failAt \in FailPoints : _close_stream(TRUE, "queued", failAt)
            /\ UNCHANGED callback_added
    /\ UNCHANGED <<console_stream, callback_started, epc, events, lpc, lcalls,
                   fileData>>
    /\ warning' = "none"
    /\ UNCHANGED <<vmVars, connVars, utilVars>>

EventKinds == {"READABLE", "ERROR", "HANGUP"}
\* the masks delivered: data, data with a hangup, a hangup alone, an error
EventMasks == { {"READABLE"}, {"READABLE", "HANGUP"}, {"HANGUP"}, {"ERROR"} }

\* every combination of events one report can carry
AllEventMasks == (SUBSET EventKinds) \ { {} }

\* the hypervisor reports events on the stream: _stream_event is entered
StreamEventWith(masks) ==
    /\ epc = "idle"
    /\ hvCallback
    /\ hvStream = "open"
    /\ \E ev \in masks :
         /\ events' = ev
         /\ epc' = IF "READABLE" \in ev THEN "recv" ELSE "tail"
    /\ UNCHANGED <<stream_completed, console_stream, callback_started,
                   callback_added, log_file, logging_buffer, hvStream,
                   hvCallback, console, evQueue, lpc, lcalls, streamOps,
                   logLines, fileData, closedBy, closeRuns, escaped,
                   closeFail>>
    /\ warning' = "none"
    /\ UNCHANGED <<vmVars, connVars, utilVars>>

\* variant: the read loop aborts the stream at EOF
EofAbort_Abort == TRUE

\* the abort argument of the close routine at EOF: "self._close_stream(False)"
EofAbort == FALSE

\* variant: a console failure closes the stream with finish
ErrorAbort_Finish == FALSE

\* the abort argument of the close routine after a read error, an error event
\* or a hangup event: "self._close_stream(True)"
ErrorAbort == TRUE

\* an event report with one of EventMasks
StreamEvent == StreamEventWith(EventMasks)

\* an event report with any combination of events
AnyStreamEvent == StreamEventWith(AllEventMasks)

\* where _stream_event goes on after its read loop ended without an exception
AfterRead == IF events \cap {"ERROR", "HANGUP"} # {} THEN "tail" ELSE "idle"
\* the event mask is that of the handler in progress, empty when none is
MaskAt(p) == IF p = "idle" THEN {} ELSE events

\* one stream.recv of the read loop and what the loop does with its result
EvRecv ==
    /\ epc = "recv"
    /\ \/ \* data: write it to the file, feed the line buffer
          \E n \in 1..Len(console) :
            LET data == SubSeq(console, 1, n)
                newline_index == FindNewline(data, 1)
            IN
            /\ console' = SubSeq(console, n + 1, Len(console))
            /\ IF log_file # "open"
               THEN \* write on a closed file raises ValueError
                    /\ escaped' = TRUE
                    /\ epc' = "idle"
                    /\ UNCHANGED <<fileData, logging_buffer, logLines>>
               ELSE /\ fileData' = fileData \o data
                    /\ epc' = "recv"
                    /\ UNCHANGED escaped
                    /\ IF newline_index = 0
                       THEN /\ logging_buffer' = logging_buffer \o data
                            /\ UNCHANGED logLines
                       ELSE /\ logLines' = Append(logLines,
                                  LogRecord(logging_buffer
                                     \o SubSeq(data, 1, newline_index - 1)))
                            /\ logging_buffer' =
                                  SubSeq(data, newline_index + 1, Len(data))
            /\ UNCHANGED <<stream_completed, log_file, hvCallback, hvStream,
                           streamOps, closedBy, closeRuns, closeFail>>
            /\ warning' = "none"
       \/ \* -2: no more data at the moment; flush the file
          /\ IF log_file # "open"
             THEN escaped' = TRUE /\ epc' = "idle"
             ELSE UNCHANGED escaped /\ epc' = AfterRead
          /\ UNCHANGED <<console, fileData, stream_completed, logging_buffer,
                         logLines, log_file, hvCallback, hvStream, streamOps,
                         closedBy, closeRuns, closeFail>>
          /\ warning' = "none"
       \/ \* zero bytes: EOF
          /\ warning' = "EOF"
          /\ \E failAt \in FailPoints :
               /\ _close_stream(EofAbort, "event", failAt)
               /\ epc' = IF failAt = "none" THEN AfterRead ELSE "idle"
          /\ UNCHANGED fileData
       \/ \* libvirtError
          /\ warning' = "recv error"
          /\ \E failAt \in FailPoints :
               /\ _close_stream(ErrorAbort, "event", failAt)
               /\ epc' = IF failAt = "none" THEN AfterRead ELSE "idle"
          /\ UNCHANGED fileData
    /\ events' = MaskAt(epc')
    /\ UNCHANGED <<console_stream, callback_started, callback_added, evQueue,
                   lpc, lcalls>>
    /\ UNCHANGED <<vmVars, connVars, utilVars>>

\* the error / hangup part of _stream_event
EvTail ==
    /\ epc = "tail"
    /\ warning' = IF "ERROR" \in events THEN "error" ELSE "hangup"
    /\ \E failAt \in FailPoints : _close_stream(ErrorAbort, "event", failAt)
    /\ epc' = "idle"
    /\ events' = {}
    /\ UNCHANGED <<console_stream, callback_started, callback_added, evQueue,
                   lpc, lcalls, fileData>>
    /\ UNCHANGED <<vmVars, connVars, utilVars>>

(***************************************************************************)
(* The caller thread of the logger: attach, close, wait_for_close.         *)
(***************************************************************************)
LogCall(m, abort, res) == [m |-> m, abort |-> abort, res |-> res]
CanLogCall == lpc = "idle" /\ Len(lcalls) < MaxLogCalls
Attached == \E i \in 1..Len(lcalls) : lcalls[i].m = "attach"
Finish(res) == [lcalls EXCEPT ![Len(lcalls)].res = res]

\* attach(); a step that raises ends it.  The event thread reads none of the
\* fields attach() sets after run_callback, so attach() is one step.
AttachOutcomes == {"open_raises", "console_raises", "run_callback_raises", "ok"}

AttachWith(inputs) ==
    /\ CanLogCall
    /\ ~Attached
    /\ \E o \in AttachOutcomes :
         /\ log_file' = IF o = "open_raises" THEN log_file ELSE "open"
         /\ console_stream' = (o \in {"run_callback_raises", "ok"})
         /\ hvStream' = IF o \in {"run_callback_raises", "ok"}
                        THEN "open" ELSE hvStream
         /\ IF o \in {"run_callback_raises", "ok"}
            THEN console' \in inputs
            ELSE UNCHANGED console
         /\ evQueue' = IF o = "ok"
                       THEN run_callback(evQueue, "register") ELSE evQueue
         /\ callback_started' = (o = "ok")
         /\ lcalls' = Append(lcalls,
                LogCall("attach", FALSE,
                        IF o = "ok" THEN "returned" ELSE "raised"))
    /\ UNCHANGED <<stream_completed, callback_added, logging_buffer,
                   hvCallback, epc, events, lpc, streamOps, logLines,
                   fileData, closedBy, closeRuns, escaped,
                   closeFail>>
    /\ warning' = "none"
    /\ UNCHANGED <<vmVars, connVars, utilVars>>

\* attach() to a guest that writes one of ConsoleInputs
Attach == AttachWith(ConsoleInputs)

\* attach() to a guest that writes TwoLines
AttachLines == AttachWith({TwoLines})

\* close(abort) up to the wait, or all of it when attach() did not complete
LogClose(abort) ==
    /\ CanLogCall
    /\ IF callback_started
       THEN /\ evQueue' = IF abort THEN run_callback(evQueue, "close")
                                   ELSE evQueue
            /\ lpc' = "close_wait"
            /\ lcalls' = Append(lcalls, LogCall("close", abort, "running"))
            /\ UNCHANGED <<log_file, hvStream, streamOps, console>>
       ELSE \E ok \in BOOLEAN :
            /\ ~console_stream => ok
            /\ ok => ~console_stream \/ hvStream = "open"
            \* "if self._console_stream: self._console_stream.abort()"
            /\ streamOps' = IF console_stream
                            THEN Append(streamOps, StreamOp("abort", "caller", ok))
                            ELSE streamOps
            /\ hvStream' = IF console_stream /\ ok THEN "aborted" ELSE hvStream
            /\ console' = IF console_stream /\ ok THEN << >> ELSE console
            \* "if self._log_file: self._log_file.close()", skipped by a raise
            /\ log_file' = IF ok /\ log_file # "None" THEN "closed" ELSE log_file
            /\ lpc' = "idle"
            /\ lcalls' = Append(lcalls,
                   LogCall("close", abort, IF ok THEN "returned" ELSE "raised"))
            /\ UNCHANGED evQueue
    /\ UNCHANGED <<stream_completed, console_stream, callback_started,
                   callback_added, logging_buffer, hvCallback, epc, events,
                   logLines, fileData, closedBy, closeRuns, escaped,
                   closeFail>>
    /\ warning' = "none"
    /\ UNCHANGED <<vmVars, connVars, utilVars>>

\* wait_for_close() up to the wait
WaitForClose ==
    /\ CanLogCall
    /\ IF callback_started
       THEN /\ lpc' = "wait_for_close"
            /\ lcalls' = Append(lcalls,
                                LogCall("wait_for_close", FALSE, "running"))
       ELSE /\ lpc' = "idle"
            /\ lcalls' = Append(lcalls,
                                LogCall("wait_for_close", FALSE, "returned"))
    /\ UNCHANGED <<stream_completed, console_stream, callback_started,
                   callback_added, log_file, logging_buffer, hvStream,
                   hvCallback, console, evQueue, epc, events, streamOps,
                   logLines, fileData, closedBy, closeRuns, escaped,
                   closeFail>>
    /\ warning' = "none"
    /\ UNCHANGED <<vmVars, connVars, utilVars>>

\* variant: the caller does not wait for the completion signal
WaitOver_NoWait == TRUE

\* "self._stream_completed.wait()" returns
WaitOver == stream_completed

\* close() / wait_for_close() come back from the wait
WaitReturn ==
    /\ lpc \in {"close_wait", "wait_for_close"}
    /\ WaitOver
    /\ lpc' = "idle"
    /\ lcalls' = Finish("returned")
    /\ UNCHANGED <<stream_completed, console_stream, callback_started,
                   callback_added, log_file, logging_buffer, hvStream,
                   hvCallback, console, evQueue, epc, events, streamOps,
                   logLines, fileData, closedBy, closeRuns, escaped,
                   closeFail>>
    /\ warning' = "none"
    /\ UNCHANGED <<vmVars, connVars, utilVars>>

(***************************************************************************)
(* libvirt_utils._get_libvirt_firmware_config.  Strings the code matches   *)
(* or searches are sequences of tokens: a machine type is <<"virt-", "6.2">>,*)
(* a glob pattern may hold the tokens "*" and "?", a file name holds the   *)
(* tags the exclusion filter looks for as tokens of their own.             *)
(***************************************************************************)
RECURSIVE fnmatch(_, _)
\* fnmatch.fnmatch(name, pat): "*" matches any run of tokens, "?" one token
fnmatch(name, pat) ==
    IF pat = << >> THEN name = << >>
    ELSE IF Head(pat) = "*"
         THEN \/ fnmatch(name, Tail(pat))
              \/ name # << >> /\ fnmatch(Tail(name), pat)
         ELSE /\ name # << >>
              /\ Head(pat) = "?" \/ Head(pat) = Head(name)
              /\ fnmatch(Tail(name), Tail(pat))

\* "tag in filename"
Contains(filename, tag) == \E i \in 1..Len(filename) : filename[i] = tag

\* one firmware descriptor: {targets: [{architecture, machines}], features,
\* mapping: {executable: {filename}}}
Target(arch, machines) == [architecture |-> arch, machines |-> machines]
Firmware(targets, filename, features) ==
    [targets |-> targets, features |-> features,
     mapping |-> [executable |-> [filename |-> filename]]]
\* a descriptor whose mapping has no "executable" key
KernelFirmware(targets, features) ==
    [targets |-> targets, features |-> features,
     mapping |-> [kernel |-> [filename |-> <<"vmlinuz">>]]]
\* a file of the directory that is not valid JSON
Malformed == [malformed |-> TRUE]

VirtAny == Target("aarch64", << <<"virt-", "*">> >>)
Q35Any  == Target("x86_64", << <<"pc-i440fx-", "*">>, <<"pc-q35-", "*">> >>)
\* the descriptor files a host may hold
FirmwareFiles ==
    { Firmware(<<VirtAny>>, <<"AAVMF_CODE", "fd">>, {}),
      Firmware(<<VirtAny>>, <<"QEMU_EFI", "fd">>, {}),
      Firmware(<<VirtAny>>, <<"AAVMF_CODE", "ms", "fd">>,
               {"secure-boot", "enrolled-keys"}),
      Firmware(<<VirtAny>>, <<"AAVMF_CODE", "secboot", "fd">>,
               {"secure-boot"}),
      Firmware(<<VirtAny>>, <<"AAVMF_CODE", "qcow2">>, {}),
      Firmware(<<Target("aarch64", << <<"virt-", "2.?">> >>)>>,
               <<"AAVMF32_CODE", "fd">>, {}),
      Firmware(<<Q35Any, VirtAny>>, <<"OVMF_CODE", "fd">>, {}),
      Firmware(<<Q35Any>>, <<"OVMF", "inteltdx", "fd">>, {}),
      Firmware(<<Q35Any>>, <<"OVMF", "amdsev", "fd">>, {"amd-sev"}),
      Firmware(<<Q35Any>>, <<"OVMF_CODE", "secboot", "fd">>,
               {"secure-boot", "enrolled-keys"}),
      KernelFirmware(<<VirtAny>>, {}),
      Malformed }
FirmwareDirs == UNION { [1..n -> FirmwareFiles] : n \in 1..MaxDescriptors }

\* libvirt_conn.getDomainCapabilities(machine, virttype): the canonical name
\* of the machine type and the architecture of the emulator
MachineModels == {"virt-6.2", "q35"}
DomainCaps(machine_model) ==
    IF machine_model = "q35"
    THEN [machine |-> <<"pc-q35-", "6.2">>, arch |-> "x86_64"]
    ELSE [machine |-> <<"virt-", "6.2">>, arch |-> "aarch64"]

\* the four filters, in the order the code applies them
ArchFilter(configs, arch) ==
    SelectSeq(configs, LAMBDA f : f.targets[1].architecture = arch)
MachineFilter(configs, full_machine_type) ==
    SelectSeq(configs, LAMBDA f :
        \E i \in 1..Len(f.targets[1].machines) :
            fnmatch(full_machine_type, f.targets[1].machines[i]))
ExcludeFilter(configs) ==
    SelectSeq(configs, LAMBDA f :
        /\ "executable" \in DOMAIN f.mapping
        /\ ~Contains(f.mapping.executable.filename, "inteltdx")
        /\ ~Contains(f.mapping.executable.filename, "amdsev")
        /\ ~Contains(f.mapping.executable.filename, "qcow2"))

\* variant: a secure-boot request is content with the secure-boot feature
SecureBootOk_NoKeys(f, secure_boot) ==
    IF secure_boot THEN "secure-boot" \in f.features
    ELSE "secure-boot" \notin f.features

SecureBootOk(f, secure_boot) ==
    IF secure_boot
    THEN "secure-boot" \in f.features /\ "enrolled-keys" \in f.features
    ELSE "secure-boot" \notin f.features

SecureBootFilter(configs, secure_boot) ==
    SelectSeq(configs, LAMBDA f : SecureBootOk(f, secure_boot))

\* variant: any surviving descriptor may be taken
FirstMatching_Any(configs) ==
    IF configs = << >> THEN {<< >>}
    ELSE { <<configs[i]>> : i \in 1..Len(configs) }

\* "next(iter(filtered_firmware_configs), None)", as the set of its results;
\* << >> stands for None, <<f>> for the descriptor f
FirstMatching(configs) ==
    IF configs = << >> THEN {<< >>} ELSE {<<configs[1]>>}

\* the read loop raises on the first file that does not decode
ReadError == [kind |-> "error", type |-> "Exception",
              msg |-> <<"Error reading">>]
\* the raise statement formats its message with machine_type, a name the
\* function does not define: evaluating the message raises NameError
NoFirmwareError(full_machine_type, secure_boot) ==
    [kind |-> "error", type |-> "NameError",
     msg |-> <<"name 'machine_type' is not defined">>]

\* the outcomes of one call on the directory dir
ResolveOutcomes(dir, secure_boot, machine_model) ==
    LET caps == DomainCaps(machine_model)
        firmware_configs == dir
        filtered ==
            SecureBootFilter(
                ExcludeFilter(
                    MachineFilter(ArchFilter(firmware_configs, caps.arch),
                                  caps.machine)),
                secure_boot)
    IN  IF \E i \in 1..Len(dir) : "malformed" \in DOMAIN dir[i]
        THEN {ReadError}
        ELSE { IF c = << >> THEN NoFirmwareError(caps.machine, secure_boot)
               ELSE [kind |-> "descriptor", firmware_config |-> c[1]] :
               c \in FirstMatching(filtered) }

\* the host's firmware package installs its descriptor files
InstallFirmware ==
    /\ firmware_dir = << >>
    /\ fwCalls = << >>
    /\ firmware_dir' \in FirmwareDirs
    /\ UNCHANGED <<fwCalls, xmlVars, nameVars, tearVars>>
    /\ UNCHANGED <<vmVars, connVars, logVars, feedVars>>

\* _get_libvirt_firmware_config(libvirt_conn, secure_boot, "qemu", machine_model)
GetLibvirtFirmwareConfig ==
    /\ Len(fwCalls) < MaxResolves
    /\ \E secure_boot \in BOOLEAN, machine_model \in MachineModels :
       \E o \in ResolveOutcomes(firmware_dir, secure_boot, machine_model) :
         fwCalls' = Append(fwCalls,
                           [secure_boot |-> secure_boot,
                            machine_model |-> machine_model,
                            outcome |-> o])
    /\ UNCHANGED <<firmware_dir, xmlVars, nameVars, tearVars>>
    /\ UNCHANGED <<vmVars, connVars, logVars, feedVars>>

(***************************************************************************)
(* libvirt_utils._gen_disk_device_name.  The dictionary is a function     *)
(* from the prefixes it holds to their next index; a device name is the    *)
(* pair <<prefix, suffix>>.                                                *)
(***************************************************************************)
\* chr(ord("a") + i) is Letters[i + 1]
Letters == <<"a", "b", "c", "d", "e", "f", "g", "h", "i", "j", "k", "l", "m",
             "n", "o", "p", "q", "r", "s", "t", "u", "v", "w", "x", "y", "z">>

\* variant: a prefix the dictionary does not hold starts at index 1
FirstDiskIndex_One == 0 + 1

\* the default of "next_disk_indexes.get(prefix, 0)"
FirstDiskIndex == 0

\* variant: the last letter is refused
LastDiskIndex_Short == 25 - 1

\* "if disk_index < 0 or disk_index > 25"
LastDiskIndex == 25

\* next_disk_indexes.get(prefix, 0)
DictGet(d, prefix) ==
    IF prefix \in DOMAIN d THEN d[prefix] ELSE FirstDiskIndex
\* next_disk_indexes[prefix] = value
DictSet(d, prefix, value) == (prefix :> value) @@ d

UnsupportedIndex == <<"Unsupported disk index">>

\* variant: a call that raises leaves the dictionary as it found it
IndexesAtRaise_Unchanged(d, after) == d

\* "next_disk_indexes[prefix] = disk_index + 1" stands before the range check:
\* the raise leaves the advanced dictionary behind
IndexesAtRaise(d, after) == after

\* the outcome of one call and the dictionary it leaves
GenDiskDeviceName(prefix, d) ==
    LET disk_index == DictGet(d, prefix)
        after == DictSet(d, prefix, disk_index + 1)
    IN  IF prefix \in {"vd", "sd"}
        THEN IF disk_index < 0 \/ disk_index > LastDiskIndex
             THEN [raised |-> TRUE, name |-> UnsupportedIndex,
                   indexes |-> IndexesAtRaise(d, after)]
             ELSE [raised |-> FALSE,
                   name |-> <<prefix, Letters[disk_index + 1]>>,
                   indexes |-> after]
        ELSE [raised |-> FALSE, name |-> <<prefix, disk_index>>,
              indexes |-> after]

\* one call _gen_disk_device_name(prefix, next_disk_indexes)
GenDiskDeviceNameCall ==
    \E prefix \in Prefixes :
        LET r == GenDiskDeviceName(prefix, next_disk_indexes) IN
        /\ DictGet(next_disk_indexes, prefix) < MaxDiskIndex
        /\ next_disk_indexes' = r.indexes
        /\ issued' = [issued EXCEPT ![prefix] = @ + 1]
        /\ nameCall' = << [prefix |-> prefix, n |-> issued[prefix],
                           raised |-> r.raised, name |-> r.name] >>
        /\ UNCHANGED <<fwVars, xmlVars, tearVars>>
        /\ UNCHANGED <<vmVars, connVars, logVars, feedVars>>

(***************************************************************************)
(* libvirt_utils.create_libvirt_domain_xml and _add_disk_xml.  A path is a *)
(* sequence of tokens, with "/" and "." tokens of their own.               *)
(***************************************************************************)
Paths ==
    { <<"disk", ".", "qcow2">>,
      <<"boot", ".", "iso">>,
      <<"BOOT", ".", "ISO">>,
      <<".", "iso">>,
      <<"out", ".", "iso", "/", "disk">>,
      <<"disk", ".", "iso", ".", "vhdx">> }

\* last index of token t in p, 0 when there is none (str.rfind)
RFind(p, t) ==
    LET at == { i \in 1..Len(p) : p[i] = t }
    IN  IF at = {} THEN 0 ELSE CHOOSE i \in at : \A j \in at : j <= i

\* the second component of os.path.splitext(p): the extension starts at the
\* last dot behind the last separator, unless only dots precede that dot
SplitExt(p) ==
    LET sepIndex == RFind(p, "/")
        dotIndex == RFind(p, ".")
    IN  IF /\ dotIndex > sepIndex
           /\ \E k \in (sepIndex + 1)..(dotIndex - 1) : p[k] # "."
        THEN SubSeq(p, dotIndex, Len(p))
        ELSE << >>

\* str.lower(), token by token
Lower(ext) ==
    [i \in 1..Len(ext) |->
        IF ext[i] = "ISO" THEN "iso"
        ELSE IF ext[i] = "BOOT" THEN "boot" ELSE ext[i]]

\* variant: the extension is compared as it is written
IsIso_AsWritten(os_disk_ext) == os_disk_ext = <<".", "iso">>

\* the else branch of "if os_disk_ext.lower() != '.iso'"
IsIso(os_disk_ext) == Lower(os_disk_ext) = <<".", "iso">>

\* _add_disk_xml: the <disk> element added to <devices>
DiskXml(file_path, device_type, image_type, bus_type, device_name, read_only) ==
    [type |-> "file", device |-> device_type, driver_type |-> image_type,
     dev |-> device_name, bus |-> bus_type, file |-> file_path,
     readonly |-> read_only]

VmSpecs ==
    [name : {vm_name}, memory_mib : {4096}, core_count : {4},
     os_disk_path : Paths, boot_type : {"efi", "legacy"},
     secure_boot : BOOLEAN]

\* "secure_boot_str = 'no'"; the line that mirrors vm_spec.secure_boot is
\* commented out
SecureBootStr(vm_spec) == "no"
\* "firmware_file = '/usr/share/AAVMF/AAVMF_CODE.ms.fd'"; the resolver call
\* and its result are commented out
FirmwareFile == <<"AAVMF_CODE", "ms", "fd">>

\* the document create_libvirt_domain_xml(libvirt_conn, vm_spec, log_file),
\* log_path being its log_file argument,
\* returns: the elements that depend on its arguments, and the fixed ones
\* the boot path goes through
DomainXml(vm_spec, log_path) ==
    LET iso == IsIso(SplitExt(vm_spec.os_disk_path))
        \* "next_disk_indexes: Dict[str, int] = {}"
        named == GenDiskDeviceName(IF iso THEN "sd" ELSE "vd", << >>)
        disk ==
            IF iso
            THEN DiskXml(vm_spec.os_disk_path, "cdrom", "raw", "scsi",
                         named.name, TRUE)
            ELSE DiskXml(vm_spec.os_disk_path, "disk", "qcow2", "virtio",
                         named.name, FALSE)
    IN  [type |-> "qemu",
         name |-> vm_spec.name,
         memory |-> vm_spec.memory_mib,
         vcpu |-> vm_spec.core_count,
         arch |-> "aarch64",
         machine |-> "virt-6.2",
         boot_dev |-> IF iso THEN "cdrom" ELSE "hd",
         loader |-> IF vm_spec.boot_type = "efi"
                    THEN << [readonly |-> "yes",
                             secure |-> SecureBootStr(vm_spec),
                             type |-> "pflash",
                             text |-> FirmwareFile] >>
                    ELSE << >>,
         serial_path |-> log_path,
         console_path |-> log_path,
         disks |-> << disk >>]

LogFiles == {"console.log"}

\* one call of create_libvirt_domain_xml
CreateLibvirtDomainXml ==
    /\ \E vm_spec \in VmSpecs, log_path \in LogFiles :
         xmlCall' = << [vm_spec |-> vm_spec, log_file |-> log_path,
                       domain |-> DomainXml(vm_spec, log_path)] >>
    /\ UNCHANGED <<fwVars, nameVars, tearVars>>
    /\ UNCHANGED <<vmVars, connVars, logVars, feedVars>>

(***************************************************************************)
(* The close_list fixture (vmtests/conftest.py, osmodifiertest/conftest.py)*)
(* around one test.  Resources are numbered in the order of registration.  *)
(***************************************************************************)
notTearVars == <<vmVars, connVars, logVars, feedVars, fwVars, xmlVars,
                 nameVars>>

\* pytest sets the fixture up: the code before the yield
FixtureSetup ==
    /\ tpc = "idle"
    /\ fixture' \in Fixtures
    /\ keep_environment' \in BOOLEAN
    /\ vm_delete_list' = << >>
    /\ tpc' = "test"
    /\ UNCHANGED <<closeLog, exceptions, teardown, notTearVars>>

\* the test appends a resource: "close_list.append(vm)"
Register ==
    /\ tpc = "test"
    /\ Len(vm_delete_list) < MaxResources
    /\ vm_delete_list' = Append(vm_delete_list, Len(vm_delete_list) + 1)
    /\ UNCHANGED <<fixture, keep_environment, tpc, closeLog, exceptions,
                   teardown, notTearVars>>

\* the test is over and the generator resumes behind the yield:
\* "if keep_environment: return", "exceptions = []"
TeardownBegins ==
    /\ tpc = "test"
    /\ exceptions' = << >>
    /\ IF keep_environment
       THEN /\ tpc' = "done"
            /\ teardown' = [kind |-> "passed", group |-> << >>]
       ELSE /\ tpc' = "closing"
            /\ UNCHANGED teardown
    /\ UNCHANGED <<fixture, keep_environment, vm_delete_list, closeLog,
                   notTearVars>>

\* variant: the loop visits the resources in the order of registration
Reversed_Forward(l) == l

\* the resources in the order the loop visits them: reversed(vm_delete_list)
Reversed(l) == [i \in 1..Len(l) |-> l[Len(l) + 1 - i]]

\* one iteration of the loop: vm.close() returns or raises
CloseNext ==
    /\ tpc = "closing"
    /\ Len(closeLog) < Len(vm_delete_list)
    /\ LET vm == Reversed(vm_delete_list)[Len(closeLog) + 1] IN
       \E ok \in BOOLEAN :
         /\ closeLog' = Append(closeLog, <<vm, ok>>)
         /\ exceptions' = IF ok THEN exceptions ELSE Append(exceptions, vm)
    /\ UNCHANGED <<fixture, keep_environment, vm_delete_list, tpc, teardown,
                   notTearVars>>

\* "raise ExceptionGroup(...)" in osmodifiertest/conftest.py; in
\* vmtests/conftest.py "return ExceptionGroup(...)", a value pytest discards
\* when the generator ends
Surfaces(f) == f = "osmodifiertest"

\* the loop is over: "if len(exceptions) > 0: ..."
TeardownEnds ==
    /\ tpc = "closing"
    /\ Len(closeLog) = Len(vm_delete_list)
    /\ tpc' = "done"
    /\ teardown' =
          IF Len(exceptions) > 0 /\ Surfaces(fixture)
          THEN [kind |-> "raised", group |-> exceptions]
          ELSE [kind |-> "passed", group |-> << >>]
    /\ UNCHANGED <<fixture, keep_environment, vm_delete_list, closeLog,
                   exceptions, notTearVars>>

(***************************************************************************)
(* The console fed "line1\nline2": the guest writes the two lines and the   *)
(* hypervisor reports the bytes over at most MaxFeedEvents readable events. *)
(***************************************************************************)
\* attach() to a guest that writes Line12
FeedAttach == AttachWith({Line12})

\* a readable event (alone or with a hangup) enters _stream_event
FeedStreamEvent ==
    /\ epc = "idle"
    /\ hvCallback
    /\ hvStream = "open"
    /\ nFeed < MaxFeedEvents
    /\ \E ev \in { m \in EventMasks : "READABLE" \in m } :
         /\ events' = ev
         /\ epc' = "recv"
    /\ nFeed' = nFeed + 1
    /\ UNCHANGED <<stream_completed, console_stream, callback_started,
                   callback_added, log_file, logging_buffer, hvStream,
                   hvCallback, console, evQueue, lpc, lcalls, streamOps,
                   logLines, fileData, closedBy, closeRuns, escaped,
                   closeFail>>
    /\ warning' = "none"
    /\ UNCHANGED <<vmVars, connVars, libVars>>

(***************************************************************************)
(* Specifications.                                                         *)
(***************************************************************************)
\* the logger fed the two lines; the caller may close with abort
NextFeed ==
    \/ FeedAttach
    \/ RunQueued
    \/ FeedStreamEvent
    \/ EvRecv
    \/ EvTail
    \/ LogClose(TRUE)
    \/ WaitReturn

SpecFeed == Init /\ [][NextFeed]_vars

\* the firmware resolver on one host
NextFirmware ==
    \/ InstallFirmware
    \/ GetLibvirtFirmwareConfig

SpecFirmware == Init /\ [][NextFirmware]_vars

\* domain documents built on one host
NextDomain ==
    \/ InstallFirmware
    \/ CreateLibvirtDomainXml

SpecDomain == Init /\ [][NextDomain]_vars

\* one test that uses the close_list fixture
NextTeardown ==
    \/ FixtureSetup
    \/ Register
    \/ TeardownBegins
    \/ CloseNext
    \/ TeardownEnds

SpecTeardown == Init /\ [][NextTeardown]_vars

\* device names drawn from one dictionary
NextNames == GenDiskDeviceNameCall

SpecNames == Init /\ [][NextNames]_vars

\* one console logger, its caller thread and the event thread
NextLog ==
    \/ AttachLines
    \/ \E abort \in BOOLEAN : LogClose(abort)
    \/ WaitForClose
    \/ WaitReturn
    \/ RunQueued
    \/ StreamEvent
    \/ EvRecv
    \/ EvTail

SpecLog == Init /\ [][NextLog]_vars

\* both threads keep running; the event loop runs every callback handed to it
FairSpecLog ==
    /\ SpecLog
    /\ WF_vars(WaitReturn)
    /\ SF_vars(RunQueued)
    /\ WF_vars(EvRecv)
    /\ WF_vars(EvTail)

\* the stream event handler at work on either console input, with close()
NextStream ==
    \/ Attach
    \/ \E abort \in BOOLEAN : LogClose(abort)
    \/ WaitReturn
    \/ RunQueued
    \/ AnyStreamEvent
    \/ EvRecv
    \/ EvTail

SpecStream == Init /\ [][NextStream]_vars

\* the life cycle of one handle: start, close and direct address queries
NextVm ==
    \/ Start
    \/ Close
    \/ GuestStops
    \/ \E t \in 0..MaxIpTimeout : GetVmIpAddress(t)
    \/ IpPollPlain
    \/ IpSleep

SpecVm == Init /\ [][NextVm]_vars

\* direct address queries, the lease table answers recorded
NextAddr ==
    \/ \E t \in 0..MaxIpTimeout : GetVmIpAddress(t)
    \/ IpPollRecorded
    \/ IpSleep

SpecAddr == Init /\ [][NextAddr]_vars

\* the caller thread keeps running: a poll or a sleep in progress completes
FairSpecAddr == SpecAddr /\ WF_vars(IpPollRecorded) /\ WF_vars(IpSleep)

\* the connect retry loop
NextConn ==
    \/ CreateSshClient
    \/ IpPollPlain
    \/ IpSleep
    \/ SshConnect
    \/ SshSleep

SpecConn == Init /\ [][NextConn]_vars

FairSpecConn == SpecConn /\ WF_vars(IpPollPlain) /\ WF_vars(IpSleep)
                         /\ WF_vars(SshConnect) /\ WF_vars(SshSleep)

(***************************************************************************)
(* Observations shared by the properties.                                  *)
(***************************************************************************)
\* the primitives call number n issued, in order
CallOps(n) == SelectSeq(hvLog, LAMBDA e : e.call = n)
OpNames(ops) == [i \in 1..Len(ops) |-> ops[i].op]
CountOp(op) == Cardinality({i \in 1..Len(hvLog) : hvLog[i].op = op})
CountCalls(m) == Cardinality({i \in 1..Len(calls) : calls[i].m = m})
\* call j is a close() that follows an earlier close()
RepeatedClose(j) ==
    /\ calls[j].m = "close"
    /\ \E i \in 1..(j - 1) : calls[i].m = "close"

(***************************************************************************)
(* C1.  As claimed: a second close() after a first close() performs no     *)
(* hypervisor operation (no destroy, no undefine) and does not raise.      *)
(***************************************************************************)
C1_SecondCloseIssuesNothing ==
    \A j \in 1..Len(calls) :
        RepeatedClose(j) => CallOps(j) = << >> /\ calls[j].res = "returned"

\* C1, amended: a second close() does not raise, but it is not free of
\* hypervisor operations: it issues destroy and then undefine again, as the
\* first call did.
C1_SecondCloseReissues ==
    \A j \in 1..Len(calls) :
        RepeatedClose(j) =>
            /\ calls[j].res = "returned"
            /\ OpNames(CallOps(j)) = <<"destroy", "undefine">>

\* a second close() has run after a first one that destroyed and undefined
C1_Witness ==
    /\ Len(calls) >= 2
    /\ \E i \in 1..Len(calls) :
         /\ calls[i].m = "close"
         /\ \A k \in 1..2 : CallOps(i)[k].ok
         /\ \E j \in (i + 1)..Len(calls) : calls[j].m = "close"

(***************************************************************************)
(* C2.  In close(), undefine is attempted after destroy whether destroy    *)
(* succeeded or failed, and close() returns normally whatever the two      *)
(* primitives answer.                                                      *)
(***************************************************************************)
C2_CloseBestEffort ==
    \A j \in 1..Len(calls) :
        calls[j].m = "close" =>
            LET ops == CallOps(j) IN
            /\ Len(ops) = 2
            /\ ops[1].op = "destroy"
            /\ ops[2].op = "undefine"
            /\ calls[j].res = "returned"

\* one close() whose destroy failed and whose undefine succeeded, and one
\* whose destroy succeeded and whose undefine failed
C2_Witness ==
    /\ \E j \in 1..Len(calls) :
         /\ calls[j].m = "close"
         /\ ~CallOps(j)[1].ok /\ CallOps(j)[2].ok
    /\ \E j \in 1..Len(calls) :
         /\ calls[j].m = "close"
         /\ CallOps(j)[1].ok /\ ~CallOps(j)[2].ok

(***************************************************************************)
(* C3.  As claimed: over any sequence of calls on one handle, create-paused*)
(* and resume are each invoked at most once.                               *)
(***************************************************************************)
C3_StartedAtMostOnce ==
    /\ CountOp("create") <= 1
    /\ CountOp("resume") <= 1

\* C3, amended: the handle does not guard start().  Every start() call
\* invokes create-paused exactly once, and resume at most once and only after
\* that call's create-paused succeeded; no other method invokes either.  The
\* primitives are invoked once per start() call, not once per handle.
C3_OncePerStartCall ==
    /\ CountOp("create") = CountCalls("start")
    /\ \A j \in 1..Len(calls) :
         LET ops == CallOps(j) IN
         IF calls[j].m = "start"
         THEN \/ OpNames(ops) = <<"create">> /\ ~ops[1].ok
              \/ OpNames(ops) = <<"create", "resume">> /\ ops[1].ok
         ELSE \A k \in 1..Len(ops) : ops[k].op \notin {"create", "resume"}

\* start() was called twice and create-paused was invoked both times
C3_Witness ==
    /\ CountCalls("start") >= 2
    /\ CountOp("create") >= 2

(***************************************************************************)
(* C4.  For every VM start: create-paused completes, then the console      *)
(* logger attach completes, then resume is issued; resume is never issued  *)
(* before create-paused succeeded nor before the attach completed.         *)
(***************************************************************************)
C4_AttachBeforeResume ==
    \A i \in 1..Len(hvLog) :
        hvLog[i].op = "resume" =>
            \E j \in 1..(i - 1) : \E k \in (j + 1)..(i - 1) :
                /\ hvLog[j].op = "create" /\ hvLog[j].ok
                /\ hvLog[j].call = hvLog[i].call
                /\ hvLog[k].op = "attach" /\ hvLog[k].ok
                /\ hvLog[k].call = hvLog[i].call

(***************************************************************************)
(* C5.  get_vm_ip_address(timeout) polls at a fixed interval and has two   *)
(* outcomes: it returns a non-empty address as soon as a poll observes one,*)
(* or, when no poll observed one by the time the timeout has elapsed, it   *)
(* raises an error naming the VM.  It never returns without an address and *)
(* never polls forever.                                                    *)
(***************************************************************************)
LastCall == calls[Len(calls)]
C5_Finished ==
    pc = "idle" /\ Len(calls) > 0 /\ LastCall.m = "get_vm_ip_address"
C5_Polling == ~inSsh /\ pc \in {"ip_poll", "ip_sleep"}

C5_Outcome ==
    C5_Finished =>
        \/ /\ LastCall.res = "returned"
           /\ result.kind = "addr"
           /\ result.addr \in Addrs
           /\ result.addr = addr
        \/ /\ LastCall.res = "raised"
           /\ result = NoIpError
           /\ result.err[2] = vm_name
           /\ addr = None
           /\ now > timeout_time
           /\ now <= timeout_time + ip_poll_interval

\* the caller thread takes a step (the guest may also stop meanwhile)
C5_Step ==
    /\ (pc = "ip_poll" /\ pc' # pc /\ ~inSsh) =>
          /\ addr' # None => pc' = "idle" /\ result'.addr = addr'
          /\ pc' = "ip_sleep" => addr' = None /\ now <= timeout_time
    /\ (pc = "ip_sleep" /\ pc' # pc /\ ~inSsh) =>
          pc' = "ip_poll" /\ now' = now + ip_poll_interval

C6_LastAddress ==
    /\ (Len(lease) = 0 \/ Len(lease[1]) = 0) => addr = None
    /\ (Len(lease) >= 1 /\ Len(lease[1]) = 1) => addr = lease[1][1]
    /\ (Len(lease) >= 1 /\ Len(lease[1]) > 1) =>
           addr = lease[1][Len(lease[1])]

\* a query read two different addresses and returned the second
C6_Witness ==
    /\ Len(lease) >= 1
    /\ lease[1] = <<"A", "B">>
    /\ addr = "B"
    /\ result.kind = "addr"

(***************************************************************************)
(* C7.  As claimed: after a failed session attempt, create_ssh_client      *)
(* fails when the elapsed time is >= the overall timeout and otherwise     *)
(* sleeps the backoff and retries.                                         *)
(***************************************************************************)
\* this step is an SshClient construction that raised SshClientException
AttemptFails ==
    /\ pc = "ssh_connect"
    /\ Len(attempts') = Len(attempts) + 1
    /\ ~attempts'[Len(attempts')][2]

C7_GivesUpAtLimitStep ==
    AttemptFails =>
        IF now' >= stable_ip_time_out
        THEN pc' = "idle" /\ result' = GiveUpError(vm_ip_address)
        ELSE pc' = "ssh_sleep"

C7_GivesUpAtLimit == [][C7_GivesUpAtLimitStep]_vars

\* C7, amended: after a failed session attempt, create_ssh_client fails
\* (error naming the last attempted address and wrapping the last connection
\* error) only when the elapsed time is strictly greater than the overall
\* timeout; when it is less than or equal to it, the loop sleeps the fixed
\* backoff and fetches the address again, and every attempt uses the address
\* fetched after the preceding sleep.
C7_RetryStep ==
    /\ AttemptFails =>
          IF now' > stable_ip_time_out
          THEN /\ pc' = "idle"
               /\ result' = GiveUpError(vm_ip_address)
               /\ calls' = Append(calls, CallEntry("create_ssh_client", TRUE))
          ELSE pc' = "ssh_sleep"
    /\ pc = "ssh_sleep" =>
          /\ now' = now + stable_ip_wait_time
          /\ pc' = "ip_poll"
          /\ Len(fetched') = Len(attempts')
    /\ pc = "ssh_connect" =>
          /\ Len(fetched) = Len(attempts) + 1
          /\ attempts'[Len(attempts')][1] = fetched[Len(fetched)]

C7_RetryUntilPastLimit == [][C7_RetryStep]_vars

\* an attempt failed exactly at the limit and the loop went on to sleep
C7_Witness ==
    /\ pc = "ssh_sleep"
    /\ now = stable_ip_time_out

(***************************************************************************)
(* C8.  When the address fetches return A, A, B, connecting to A fails and *)
(* connecting to B succeeds, create_ssh_client returns a session bound to  *)
(* B before the overall timeout has elapsed.                               *)
(***************************************************************************)
C8_Finished ==
    pc = "idle" /\ Len(calls) > 0 /\ LastCall.m = "create_ssh_client"

C8_Scenario ==
    /\ C8_Finished
    /\ ~emptyPolls
    /\ Len(fetched) >= 3
    /\ SubSeq(fetched, 1, 3) = <<"A", "A", "B">>
    /\ \A i \in 1..Len(attempts) : attempts[i][2] = (attempts[i][1] = "B")

MaxAttempts == (stable_ip_time_out \div stable_ip_wait_time) + 2

C9_Terminates ==
    /\ ((inSsh /\ pc # "idle") ~> C8_Finished)
    /\ [](Len(attempts) <= MaxAttempts)

\* the loop gave up after the largest number of failed attempts
C9_Witness ==
    /\ C8_Finished
    /\ Len(attempts) = MaxAttempts
    /\ result.kind = "error"
    /\ result.addr \in Addrs

(***************************************************************************)
(* C10.  After a successful attach, close(abort=True) hands the stream     *)
(* abort to the event thread and eventually returns; close() and           *)
(* wait_for_close() return only after the completion signal is set;        *)
(* close(abort=False) issues no abort of its own and returns only after    *)
(* the close routine has run without its doing.                            *)
(***************************************************************************)
LastLogCall == lcalls[Len(lcalls)]
C10_Waiting == lpc \in {"close_wait", "wait_for_close"}
\* logger call j was made after attach() had returned
AfterAttach(j) ==
    \E i \in 1..(j - 1) : lcalls[i].m = "attach" /\ lcalls[i].res = "returned"

C10_Step ==
    /\ (lpc = "idle" /\ lpc' = "close_wait") =>
          /\ evQueue' = IF lcalls'[Len(lcalls')].abort
                        THEN Append(evQueue, "close") ELSE evQueue
          /\ streamOps' = streamOps
          /\ hvStream' = hvStream
    /\ (C10_Waiting /\ lpc' = "idle") =>
          stream_completed /\ lcalls'[Len(lcalls')].res = "returned"

C10_NoOwnAbort ==
    \A j \in 1..Len(lcalls) :
        (/\ lcalls[j].m = "close"
         /\ ~lcalls[j].abort
         /\ lcalls[j].res = "returned"
         /\ AfterAttach(j)) =>
            /\ closedBy # "none"
            /\ closedBy = "queued" =>
                  \E k \in 1..(j - 1) :
                      lcalls[k].m = "close" /\ lcalls[k].abort

C10_CloseWaits ==
    /\ [][C10_Step]_vars
    /\ []C10_NoOwnAbort
    /\ ((lpc = "close_wait" /\ LastLogCall.abort) ~> lpc = "idle")

\* close(abort=True) returned after the event thread aborted the stream
C10_Witness ==
    /\ lpc = "idle"
    /\ Len(lcalls) = 2
    /\ lcalls[1].m = "attach" /\ lcalls[1].res = "returned"
    /\ lcalls[2].m = "close" /\ lcalls[2].abort /\ lcalls[2].res = "returned"
    /\ closedBy = "queued"
    /\ \E i \in 1..Len(streamOps) :
         streamOps[i] = StreamOp("abort", "event", TRUE)

(***************************************************************************)
(* C11.  As claimed: with "line1\nline2" fed across two stream events, at   *)
(* every split point of the byte string, exactly one log line, "line1",    *)
(* has been emitted once the first event is handled and before the second  *)
(* is; "line2" is emitted only when the stream is closed.                  *)
(***************************************************************************)
\* the bytes of Line12 the logger has read so far
Consumed == Len(Line12) - Len(console)
\* the logger reads Line12 and nothing has closed or broken the stream yet
Feeding ==
    /\ hvStream = "open"
    /\ callback_added
    /\ closeRuns = 0
    /\ ~escaped
\* the first event read a proper, non-empty prefix and is over; the second
\* has not begun
BetweenFeedEvents ==
    /\ Feeding
    /\ nFeed = 1
    /\ epc = "idle"
    /\ Consumed \in 1..(Len(Line12) - 1)

C11_Line1AfterFirstEvent ==
    /\ BetweenFeedEvents => logLines = << LogRecord(SubSeq(Line12, 1, 5)) >>
    /\ (\E i \in 1..Len(logLines) : logLines[i] = SubSeq(Line12, 7, 11))
          => stream_completed

\* C11, amended: "line1" is emitted by the event that reads the line feed,
\* which is the first event only when the split point lies behind the line
\* feed; with an earlier split no line has been emitted between the two
\* events.  Once both events are handled exactly one line, "line1", has been
\* emitted; "line2" is emitted only by the close routine, and a close that
\* follows the whole feed leaves exactly the two lines.
C11_Line1AtLineFeed ==
    /\ Feeding =>
          /\ logLines = IF Consumed >= 6
                        THEN << SubSeq(Line12, 1, 5) >> ELSE << >>
          /\ logging_buffer = IF Consumed >= 6
                              THEN SubSeq(Line12, 7, Consumed)
                              ELSE SubSeq(Line12, 1, Consumed)
    /\ (\E i \in 1..Len(logLines) : logLines[i] = SubSeq(Line12, 7, 11))
          => stream_completed
    /\ (closeRuns >= 1 /\ fileData = Line12) =>
          logLines = << SubSeq(Line12, 1, 5), SubSeq(Line12, 7, 11) >>

\* the two lines were fed over two events and the stream was closed after
\* the second: both lines have been emitted
C11_Witness ==
    /\ nFeed = 2
    /\ epc = "idle"
    /\ closeRuns = 1
    /\ fileData = Line12
    /\ logLines = << SubSeq(Line12, 1, 5), SubSeq(Line12, 7, 11) >>

(***************************************************************************)
(* C20.  The close routine (_close_stream) is idempotent, guarded by the   *)
(* completed flag: over any interleaving of stream events and close()      *)
(* requests its effects (final flush, log file close, callback detach,     *)
(* stream abort/finish, completion signal) happen at most once, and every  *)
(* invocation after completion changes nothing.                            *)
(***************************************************************************)
CountStreamOps(ops) ==
    Cardinality({ i \in 1..Len(streamOps) :
                    streamOps[i].thread = "event" /\ streamOps[i].op \in ops })

C20_AtMostOnce ==
    /\ closeRuns <= 1
    /\ stream_completed <=> closeRuns = 1
    /\ CountStreamOps({"remove"}) <= 1
    /\ CountStreamOps({"abort", "finish"}) <= 1

\* once the flag is set no step flushes, closes, detaches or signals again
C20_NoOpAfterCompletion ==
    stream_completed =>
        UNCHANGED <<logLines, logging_buffer, log_file, streamOps, hvCallback,
                    hvStream, stream_completed, closeRuns, closedBy>>

C20_CloseRoutineIdempotent ==
    /\ []C20_AtMostOnce
    /\ [][C20_NoOpAfterCompletion]_vars

\* close(abort=True) returned although an event had closed the stream first:
\* the close routine it queued has run after completion
C20_Witness ==
    /\ closeRuns = 1
    /\ closedBy = "event"
    /\ evQueue = << >>
    /\ \E j \in 1..Len(lcalls) :
         lcalls[j].m = "close" /\ lcalls[j].abort /\ lcalls[j].res = "returned"
         /\ AfterAttach(j)

(***************************************************************************)
(* C12.  The resolver returns the first descriptor, in the enumeration     *)
(* order of the loaded descriptors, that satisfies all four filters:       *)
(* architecture equal to the requested one, machine model matching one of  *)
(* the descriptor's glob patterns, executable none of the excluded         *)
(* variants (inteltdx, amdsev, qcow2), and the secure-boot filter          *)
(* (requested: secure-boot and enrolled-keys; not requested: no            *)
(* secure-boot).  No descriptor failing a filter is ever returned.         *)
(***************************************************************************)
\* every file of the directory decodes
Readable(dir) == \A i \in 1..Len(dir) : "malformed" \notin DOMAIN dir[i]

\* descriptor f satisfies the four filters for the request of call c
C12_Passes(f, c) ==
    LET caps == DomainCaps(c.machine_model)
        target == f.targets[1]
    IN  /\ target.architecture = caps.arch
        /\ \E i \in 1..Len(target.machines) :
               fnmatch(caps.machine, target.machines[i])
        /\ "executable" \in DOMAIN f.mapping
        /\ \A tag \in {"inteltdx", "amdsev", "qcow2"} :
               \A k \in 1..Len(f.mapping.executable.filename) :
                   f.mapping.executable.filename[k] # tag
        /\ c.secure_boot =>
               {"secure-boot", "enrolled-keys"} \subseteq f.features
        /\ ~c.secure_boot => "secure-boot" \notin f.features

C12_Passing(c) ==
    { i \in 1..Len(firmware_dir) : C12_Passes(firmware_dir[i], c) }

C12_FirstPassingDescriptor ==
    Readable(firmware_dir) =>
        \A n \in 1..Len(fwCalls) :
            LET c == fwCalls[n]
                passing == C12_Passing(c)
            IN  IF passing = {}
                THEN c.outcome.kind # "descriptor"
                ELSE /\ c.outcome.kind = "descriptor"
                     /\ \E i \in passing :
                          /\ \A j \in passing : i <= j
                          /\ c.outcome.firmware_config = firmware_dir[i]

\* a secure-boot request skipped the first descriptor, which lacks
\* enrolled-keys, and returned the second
C12_Witness ==
    /\ Len(firmware_dir) = 2
    /\ Readable(firmware_dir)
    /\ firmware_dir[1].features = {"secure-boot"}
    /\ \E n \in 1..Len(fwCalls) :
         /\ fwCalls[n].secure_boot
         /\ fwCalls[n].outcome.kind = "descriptor"
         /\ fwCalls[n].outcome.firmware_config = firmware_dir[2]

(***************************************************************************)
(* C13.  When no descriptor survives the filters the resolver fails with   *)
(* the not-found error that carries the requested machine type and         *)
(* secure-boot flag; (virt-6.2, secure boot) over a directory holding only *)
(* a non-secure-boot aarch64 virt-6.2 descriptor fails with that error and *)
(* with no other.                                                          *)
(***************************************************************************)
C13_NotFoundCarriesRequest ==
    Readable(firmware_dir) =>
        \A n \in 1..Len(fwCalls) :
            C12_Passing(fwCalls[n]) = {} =>
                /\ fwCalls[n].outcome.kind = "error"
                /\ fwCalls[n].outcome.type = "Exception"
                /\ Head(fwCalls[n].outcome.msg)
                      = "Could not find matching firmware"

(***************************************************************************)
(* C14.  The resolver is deterministic: on one descriptor snapshot, two    *)
(* calls with the same machine model and secure-boot flag have the same    *)
(* outcome, the same descriptor or the same failure.                       *)
(***************************************************************************)
C14_Deterministic ==
    \A m, n \in 1..Len(fwCalls) :
        (/\ fwCalls[m].secure_boot = fwCalls[n].secure_boot
         /\ fwCalls[m].machine_model = fwCalls[n].machine_model)
            => fwCalls[m].outcome = fwCalls[n].outcome

\* the same request was made twice on a directory in which two different
\* descriptors satisfy it
C14_Witness ==
    /\ Len(fwCalls) >= 2
    /\ fwCalls[1].secure_boot = fwCalls[2].secure_boot
    /\ fwCalls[1].machine_model = fwCalls[2].machine_model
    /\ fwCalls[1].outcome.kind = "descriptor"
    /\ Readable(firmware_dir)
    /\ Cardinality(C12_Passing(fwCalls[1])) = 2
    /\ firmware_dir[1] # firmware_dir[2]

(***************************************************************************)
(* C15.  As claimed: the domain document holds exactly one boot disk,      *)
(* classified by the extension of the disk image path: a path ending       *)
(* ".iso" always yields a read-only cdrom on the platform bus with boot    *)
(* device cdrom, and any other extension yields a read-write virtio disk   *)
(* with boot device hd.                                                    *)
(***************************************************************************)
\* the path ends with the characters ".iso"
EndsWithIso(path) ==
    /\ Len(path) >= 2
    /\ path[Len(path) - 1] = "."
    /\ path[Len(path)] = "iso"

\* the one disk of the document is the read-only cdrom / the virtio disk
IsCdromBoot(domain) ==
    /\ Len(domain.disks) = 1
    /\ domain.disks[1].device = "cdrom"
    /\ domain.disks[1].readonly
    /\ domain.disks[1].bus = "scsi"
    /\ domain.boot_dev = "cdrom"
IsVirtioBoot(domain) ==
    /\ Len(domain.disks) = 1
    /\ domain.disks[1].device = "disk"
    /\ ~domain.disks[1].readonly
    /\ domain.disks[1].bus = "virtio"
    /\ domain.boot_dev = "hd"

C15_ClassifiedByIsoSuffix ==
    xmlCall # << >> =>
        IF EndsWithIso(xmlCall[1].vm_spec.os_disk_path)
        THEN IsCdromBoot(xmlCall[1].domain)
        ELSE IsVirtioBoot(xmlCall[1].domain)

\* C15, amended: the document holds exactly one boot disk, classified by
\* the extension os.path.splitext finds in the path, compared without regard
\* to case: when that extension is ".iso" in any spelling (".ISO" too) the
\* disk is a read-only cdrom on the scsi bus with boot device cdrom; in
\* every other case it is a read-write virtio disk with boot device hd.  A
\* file name that consists of ".iso" alone has no extension and yields the
\* virtio disk.
C15_ClassifiedByLoweredExtension ==
    xmlCall # << >> =>
        IF Lower(SplitExt(xmlCall[1].vm_spec.os_disk_path)) = <<".", "iso">>
        THEN IsCdromBoot(xmlCall[1].domain)
        ELSE IsVirtioBoot(xmlCall[1].domain)

\* a document was built for "BOOT.ISO": its disk is the cdrom
C15_Witness ==
    /\ xmlCall # << >>
    /\ xmlCall[1].vm_spec.os_disk_path = <<"BOOT", ".", "ISO">>
    /\ IsCdromBoot(xmlCall[1].domain)

(***************************************************************************)
(* C16.  With boot type efi the document holds a loader element whose path *)
(* is the resolved firmware's executable and whose secure attribute        *)
(* mirrors the spec's secure-boot flag ("yes" when set, "no" when not);    *)
(* with boot type legacy it holds no loader element.                       *)
(***************************************************************************)
C16_LoaderMirrorsSecureBoot ==
    xmlCall # << >> =>
        LET vm_spec == xmlCall[1].vm_spec
            loader == xmlCall[1].domain.loader
        IN  IF vm_spec.boot_type = "efi"
            THEN /\ Len(loader) = 1
                 /\ loader[1].secure =
                       (IF vm_spec.secure_boot THEN "yes" ELSE "no")
            ELSE loader = << >>

(***************************************************************************)
(* C17.  End to end: the document built for boot type efi, secure boot     *)
(* off and disk image "disk.qcow2", with one matching non-secure-boot      *)
(* firmware descriptor available, has a loader with secure="no" and a boot *)
(* disk named "vda".                                                       *)
(***************************************************************************)
\* the directory holds one descriptor, which a request without secure boot
\* for the machine model of the document matches
C17_OneMatchingFirmware ==
    /\ Len(firmware_dir) = 1
    /\ Readable(firmware_dir)
    /\ C12_Passes(firmware_dir[1],
                  [secure_boot |-> FALSE, machine_model |-> "virt-6.2"])

C17_Case ==
    /\ xmlCall # << >>
    /\ xmlCall[1].vm_spec.boot_type = "efi"
    /\ ~xmlCall[1].vm_spec.secure_boot
    /\ xmlCall[1].vm_spec.os_disk_path = <<"disk", ".", "qcow2">>
    /\ C17_OneMatchingFirmware

C17_EndToEnd ==
    C17_Case =>
        /\ Len(xmlCall[1].domain.loader) = 1
        /\ xmlCall[1].domain.loader[1].secure = "no"
        /\ Len(xmlCall[1].domain.disks) = 1
        /\ xmlCall[1].domain.disks[1].dev = <<"vd", "a">>

\* that document was built
C17_Witness ==
    /\ C17_Case
    /\ xmlCall[1].domain.boot_dev = "hd"

(***************************************************************************)
(* C18.  Device naming keeps a running counter per prefix: for "vd" and    *)
(* "sd" the N-th call (from 0) for a prefix returns the prefix followed by *)
(* chr('a' + N) for every N in [0, 26), and the call with N = 26 raises;   *)
(* the name depends on the prefix and on N only, so identical call         *)
(* sequences produce identical names.                                      *)
(***************************************************************************)
C18_LetterByCount ==
    (nameCall # << >> /\ nameCall[1].prefix \in {"vd", "sd"}) =>
        LET c == nameCall[1] IN
        IF c.n < 26
        THEN ~c.raised /\ c.name = <<c.prefix, Letters[c.n + 1]>>
        ELSE c.raised

\* the 27th name for "vd" was asked for, names for "sd" having been drawn
\* in between
C18_Witness ==
    /\ nameCall # << >>
    /\ nameCall[1].prefix = "vd"
    /\ nameCall[1].n = 26
    /\ nameCall[1].raised
    /\ issued["sd"] \in 1..25

(***************************************************************************)
(* C19.  In the batch teardown, when the close() of one or more resources  *)
(* fails, the failures are not re-raised one by one: every resource of the *)
(* batch is processed, and then the failures are raised as one aggregate   *)
(* error, so that a teardown failure is always visible to the test run.    *)
(***************************************************************************)
C19_FailuresSurface ==
    (tpc = "done" /\ ~keep_environment) =>
        /\ Len(closeLog) = Len(vm_delete_list)
        /\ (\E i \in 1..Len(closeLog) : ~closeLog[i][2]) =>
              /\ teardown.kind = "raised"
              /\ teardown.group =
                    SelectSeq(Reversed(vm_delete_list),
                              LAMBDA vm : <<vm, FALSE>> \in
                                  { closeLog[i] : i \in 1..Len(closeLog) })

(***************************************************************************)
(* C21.  On a readable event the logger reads until one of three outcomes: *)
(* "no data now" (the log file is flushed, the stream stays open), a       *)
(* zero-byte read (EOF) or a read error (which is logged); in the last two *)
(* the stream is closed.  As claimed, both close with abort.  In the code  *)
(* only the read error aborts: EOF closes the stream with finish.          *)
(***************************************************************************)
\* the stream mutations the step makes
NewStreamOps == SubSeq(streamOps', Len(streamOps) + 1, Len(streamOps'))
NewOps == { NewStreamOps[i].op : i \in 1..Len(NewStreamOps) }
\* the step is the first run of the close routine and no step of it raises
CleanClose == ~stream_completed /\ closeRuns' = closeRuns + 1 /\ closeFail' = "none"

\* the read that found no data: flush on the open log file
C21_Flushes ==
    (/\ epc = "recv" /\ warning' = "none" /\ log_file = "open"
     /\ UNCHANGED <<console, lcalls, lpc>>)
    => /\ UNCHANGED <<hvStream, hvCallback, streamOps, stream_completed,
                      log_file, fileData, logLines, logging_buffer>>
       /\ epc' = AfterRead

\* as claimed: EOF and a read error both end in an aborted stream
C21_StepAborts ==
    (epc = "recv" /\ warning' \in {"EOF", "recv error"} /\ CleanClose)
    => hvStream' = "aborted" /\ "abort" \in NewOps

C21_EofAborts == [][C21_StepAborts]_vars

\* in the code: finish at EOF, abort at a read error
C21_StepCloses ==
    (epc = "recv" /\ warning' \in {"EOF", "recv error"})
    => /\ stream_completed'
       /\ ~stream_completed => closeRuns' = closeRuns + 1
       /\ NewOps \subseteq
            {"remove", IF warning' = "EOF" THEN "finish" ELSE "abort"}
       /\ CleanClose =>
            /\ hvStream' = IF warning' = "EOF" THEN "finished" ELSE "aborted"
            /\ (IF warning' = "EOF" THEN "finish" ELSE "abort") \in NewOps

C21_ReadOutcomes == [][C21_Flushes /\ C21_StepCloses]_vars

\* the read loop met EOF on the open stream and finished it
C21_Witness ==
    /\ warning = "EOF"
    /\ closedBy = "event"
    /\ closeFail = "none"
    /\ hvStream = "finished"
    /\ streamOps[Len(streamOps)] = StreamOp("finish", "event", TRUE)

(***************************************************************************)
(* C22.  Every chunk read from the console is written verbatim to the log  *)
(* file and fed to the line-reassembly buffer; for a chunk with one or     *)
(* more line feeds all content up to the last line feed is emitted and     *)
(* only the remainder after the last line feed is retained: the retained   *)
(* buffer never contains a line feed after a chunk has been processed.     *)
(***************************************************************************)
\* the log file holds what was read so far of the guest's output
WrittenVerbatim ==
    \E input \in ConsoleInputs :
        /\ Len(fileData) <= Len(input)
        /\ fileData = SubSeq(input, 1, Len(fileData))

C22_NoLineFeedRetained ==
    /\ WrittenVerbatim
    /\ \A i \in 1..Len(logging_buffer) : logging_buffer[i] # LF

(***************************************************************************)
(* C23.  Every mutation of the hypervisor stream object made by the        *)
(* console logger (callback register, callback remove, abort, finish)      *)
(* executes on the single shared event thread.  As claimed, this holds in  *)
(* every state of the logger, including one whose attach() did not         *)
(* complete.  In the code close() aborts the stream on the caller thread   *)
(* when attach() did not get as far as starting the callbacks.             *)
(***************************************************************************)
\* as claimed: no mutation is ever made on a caller thread
C23_OnlyOnEventThread ==
    \A i \in 1..Len(streamOps) : streamOps[i].thread = "event"

\* in the code: the one mutation on a caller thread is the abort that close()
\* makes on a logger whose callbacks were never started
C23_EventThreadOnceStarted ==
    /\ callback_started => C23_OnlyOnEventThread
    /\ \A i \in 1..Len(streamOps) :
         streamOps[i].thread # "event" =>
            /\ streamOps[i].thread = "caller"
            /\ streamOps[i].op = "abort"
            /\ ~callback_started /\ console_stream
            /\ \E j \in 1..Len(lcalls) :
                 lcalls[j].m = "close" /\ lcalls[j].res # "running"

\* close(abort=True) on an attached logger: register, remove and abort were
\* all made by the event thread
C23_Witness ==
    /\ callback_started
    /\ closedBy = "queued"
    /\ streamOps = << StreamOp("register", "event", TRUE),
                      StreamOp("remove", "event", TRUE),
                      StreamOp("abort", "event", TRUE) >>

(***************************************************************************)
(* C24.  A console I/O failure (read error, error event or hangup event)   *)
(* is never propagated as an exception out of the stream event handler or  *)
(* to the caller: it produces a logged warning and triggers the            *)
(* abort-close routine.  An exception leaves the handler at such a step    *)
(* only when a step of the close routine itself raises.                    *)
(***************************************************************************)
\* the step handles a read error, or the error / hangup part of an event
C24_HandlesFailure ==
    \/ epc = "recv" /\ warning' = "recv error"
    \/ epc = "tail" /\ epc' = "idle"

C24_Step ==
    C24_HandlesFailure =>
       \* a warning is logged
       /\ warning' = IF epc = "recv" THEN "recv error"
                     ELSE IF "ERROR" \in events THEN "error" ELSE "hangup"
       \* the close routine is entered with abort set
       /\ stream_completed'
       /\ ~stream_completed =>
            /\ closeRuns' = closeRuns + 1
            /\ log_file' = "closed"
            /\ NewOps \subseteq {"remove", "abort"}
            /\ closeFail' \in {"none", "term"} => "abort" \in NewOps
            /\ closeFail' = "none" => hvStream' = "aborted"
       \* the failure itself raises nothing
       /\ escaped' # escaped =>
            closeRuns' = closeRuns + 1 /\ closeFail' # "none"

\* no close() made after attach() returned raises
C24_CallerSeesNothing ==
    \A j \in 1..Len(lcalls) :
        (lcalls[j].m # "attach" /\ AfterAttach(j)) => lcalls[j].res # "raised"

C25_ReverseOrderOnce ==
    /\ keep_environment => closeLog = << >>
    /\ Len(closeLog) <= Len(vm_delete_list)
    \* the i-th close() is made on the i-th resource from the end
    /\ \A i \in 1..Len(closeLog) :
         closeLog[i][1] = vm_delete_list[Len(vm_delete_list) + 1 - i]
    \* at the end every resource was closed once, whatever raised
    /\ (tpc = "done" /\ ~keep_environment) =>
         \A k \in 1..Len(vm_delete_list) :
            Cardinality({ i \in 1..Len(closeLog) :
                            closeLog[i][1] = vm_delete_list[k] }) = 1

\* three resources, the close() of the second one raised, the first one was
\* closed after it
C25_Witness ==
    /\ tpc = "done"
    /\ ~keep_environment
    /\ vm_delete_list = <<1, 2, 3>>
    /\ closeLog = << <<3, TRUE>>, <<2, FALSE>>, <<1, TRUE>> >>

(***************************************************************************)
(* C26.  For a console logger whose attach() succeeded, over any sequence  *)
(* of stream events (readable with EOF, error, hangup, in any combination  *)
(* within one event) and close() calls, the stream is terminated at most   *)
(* once in total: at most one call to abort() or finish() is ever made,    *)
(* never both.                                                             *)
(***************************************************************************)
\* the calls of abort() and finish() made so far, on whatever thread
Terminations ==
    { i \in 1..Len(streamOps) : streamOps[i].op \in {"abort", "finish"} }

C26_TerminatedAtMostOnce ==
    callback_started => Cardinality(Terminations) <= 1

\* one event carried EOF and a hangup and close(abort=True) was called too:
\* the stream was finished at EOF and nothing aborted it afterwards
C26_Witness ==
    /\ callback_started
    /\ warning = "hangup"
    /\ hvStream = "finished"
    /\ Cardinality(Terminations) = 1
    /\ \E j \in 1..Len(lcalls) : lcalls[j].m = "close" /\ lcalls[j].abort

(***************************************************************************)
(* C27.  Once the close routine (_close_stream) has been entered with the  *)
(* completed flag unset, the completion signal is set when it exits, also  *)
(* when a step inside it fails (log file close, callback removal, stream   *)
(* abort or finish raising); a caller blocked in close() or                *)
(* wait_for_close() is therefore always released after the first close     *)
(* attempt, and no later invocation retries the failed cleanup steps.      *)
(***************************************************************************)
C27_SignalledAtExit == closeRuns >= 1 => stream_completed

\* after a close attempt in which a step raised, nothing runs the steps again
C27_NoRetry ==
    closeFail # "none" =>
        UNCHANGED <<closeRuns, closeFail, streamOps, log_file, logLines,
                    hvStream, hvCallback, stream_completed>>

C27_Released == (C10_Waiting /\ closeRuns >= 1) ~> (lpc = "idle")

C27_CompletionAlwaysSignalled ==
    /\ []C27_SignalledAtExit
    /\ [][C27_NoRetry]_vars
    /\ C27_Released

\* the abort of the stream raised in the close routine, and the close() that
\* waited for the completion signal has returned
C27_Witness ==
    /\ closeFail = "term"
    /\ hvStream = "open"
    /\ stream_completed
    /\ lpc = "idle"
    /\ LastLogCall.m = "close" /\ LastLogCall.res = "returned"
    /\ AfterAttach(Len(lcalls))

(***************************************************************************)
(* C28.  In create_ssh_client only a session-construction failure          *)
(* (SshClientException) is retried: a failure of the address fetch inside  *)
(* the loop (get_vm_ip_address timing out) ends the whole operation        *)
(* immediately with the address-timeout error, without backoff or retry,   *)
(* even when the elapsed time is still below the overall timeout.          *)
(***************************************************************************)
\* the poll of create_ssh_client that finds no address after the fetch
\* timeout ends the call with the address-timeout error
C28_FetchTimeoutEnds ==
    (inSsh /\ pc = "ip_poll" /\ pc' # "ip_poll" /\ addr' = None
           /\ now > timeout_time)
    => /\ pc' = "idle"
       /\ result' = NoIpError
       /\ calls' = Append(calls, CallEntry("create_ssh_client", TRUE))
       /\ UNCHANGED <<now, timeout_time, attempts, fetched>>

\* the backoff sleep follows a failed session construction and nothing else
C28_BackoffAfterSessionFailure ==
    pc = "ssh_sleep" =>
        /\ attempts # << >>
        /\ ~attempts[Len(attempts)][2]
        /\ Len(fetched) = Len(attempts)

C28_OnlySessionFailureRetried ==
    /\ [][C28_FetchTimeoutEnds]_vars
    /\ []C28_BackoffAfterSessionFailure

\* the fetch after one failed session timed out: the call has ended with the
\* address-timeout error although the overall timeout has not passed
C28_Witness ==
    /\ inSsh
    /\ pc = "idle"
    /\ result = NoIpError
    /\ Len(attempts) = 1
    /\ now - 0 <= stable_ip_time_out
    /\ calls[Len(calls)] = CallEntry("create_ssh_client", TRUE)

(***************************************************************************)
(* C29.  _gen_disk_device_name advances the per-prefix counter on every    *)
(* call, including a call that raises for an unsupported index: after the  *)
(* failing call for index 26 the counter for that prefix is 27, and the    *)
(* counters of other prefixes are never modified by a call for a given     *)
(* prefix.                                                                 *)
(***************************************************************************)
\* the counter of a prefix is the number of calls made for it, and the
\* counter a raising call leaves is one above the index it refused
C29_CounterCountsCalls ==
    /\ \A p \in Prefixes : DictGet(next_disk_indexes, p) = issued[p]
    /\ (nameCall # << >> /\ nameCall[1].raised) =>
          /\ nameCall[1].n >= 26
          /\ DictGet(next_disk_indexes, nameCall[1].prefix) = nameCall[1].n + 1

\* a call for one prefix leaves the entries of the other prefixes alone
C29_OthersUntouched ==
    issued' # issued =>
        \A q \in Prefixes \ {nameCall'[1].prefix} :
            /\ (q \in DOMAIN next_disk_indexes') <=> (q \in DOMAIN next_disk_indexes)
            /\ DictGet(next_disk_indexes', q) = DictGet(next_disk_indexes, q)

C29_AdvancesOnEveryCall ==
    /\ []C29_CounterCountsCalls
    /\ [][C29_OthersUntouched]_vars

\* the call for index 26 of "sd" has just raised and left the counter at 27,
\* with the counter of "vd" where earlier calls had put it
C29_Witness ==
    /\ nameCall # << >>
    /\ nameCall[1] = [prefix |-> "sd", n |-> 26, raised |-> TRUE,
                      name |-> UnsupportedIndex]
    /\ DictGet(next_disk_indexes, "sd") = 27
    /\ DictGet(next_disk_indexes, "vd") = 2
    /\ "hd" \notin DOMAIN next_disk_indexes

(***************************************************************************)
(* C30.  The address query consults only the first interface of the lease  *)
(* table: if that interface has an empty address list it returns none (and *)
(* get_vm_ip_address keeps polling until timeout) even when another        *)
(* interface in the same lease table holds an address.                     *)
(***************************************************************************)
\* table t lists a first interface without address and another one with one
C30_OnlyLaterInterfaceHolds(t) ==
    /\ Len(t) >= 2
    /\ t[1] = << >>
    /\ \E k \in 2..Len(t) : t[k] # << >>

\* the query on such a table returned none, and the call it belongs to has
\* not returned an address: it ended, if at all, with the timeout error
C30_NoneFromFirstInterface ==
    C30_OnlyLaterInterfaceHolds(lease) =>
        /\ addr = None
        /\ result.kind # "addr"
        /\ pc \in {"ip_poll", "ip_sleep", "idle"}
        /\ pc = "idle" => (result = NoIpError /\ now > timeout_time)

\* before the timeout the poll of such a table is followed by the sleep
C30_KeepsPolling ==
    (pc = "ip_poll" /\ pc' # "ip_poll" /\ C30_OnlyLaterInterfaceHolds(lease')
        /\ now <= timeout_time)
    => pc' = "ip_sleep" /\ result' = result

C30_FirstInterfaceOnly ==
    /\ []C30_NoneFromFirstInterface
    /\ [][C30_KeepsPolling]_vars

\* get_vm_ip_address timed out on a table whose second interface held "A"
C30_Witness ==
    /\ lease = << << >>, <<"A">> >>
    /\ addr = None
    /\ pc = "idle"
    /\ result = NoIpError
    /\ emptyPolls

====
